---- MODULE Spec2Model ----
(***************************************************************************)
(* PaintScope: the memory-bounded PDF page cache (pdf_processor.py), the   *)
(* session handlers that drive it (app.py) and the session cleanup         *)
(* (memory_utils.py), as a state machine.                                  *)
(***************************************************************************)
EXTENDS Integers, Sequences, FiniteSets, TLC

(***************************************************************************)
(* Program constants of PDFProcessor.                                      *)
(***************************************************************************)
MAX_IMAGE_DIMENSION == 2000
MAX_PAGES_IN_MEMORY == 15
MAX_BATCH_SIZE == 5

(***************************************************************************)
(* The documents of the model.  A document is its raw bytes; the bytes are *)
(* numbered.  What PyMuPDF finds in them is a function of the bytes alone. *)
(***************************************************************************)
BytesA == "%PDF-A"
BytesB == "%PDF-B"
BytesC == "%PDF-C"
BytesM == "not a pdf"
NumPagesA == 2
NumPagesB == 17
NumPagesC == 3
PageWidthPt == 2592
PageHeightPt == 1728

\* the value Python's None
None == "None"

\* fitz.open(stream=pdf_bytes) raises on bytes that are no PDF
Malformed(pdf_bytes) == pdf_bytes = BytesM

\* len(pdf_document)
PageCount(pdf_bytes) ==
    CASE pdf_bytes = BytesA -> NumPagesA
      [] pdf_bytes = BytesB -> NumPagesB
      [] pdf_bytes = BytesC -> NumPagesC
      [] OTHER -> 0

\* pdf_document[page_num]: PyMuPDF counts a negative index from the end
ResolvePage(pdf_bytes, page_num) == page_num % PageCount(pdf_bytes)

\* a page whose data is corrupt: loading or rendering it raises
Corrupt(pdf_bytes, page) == pdf_bytes = BytesC /\ page = 1

\* hashlib.md5(pdf_bytes).hexdigest(): a fixed function of the bytes,
\* distinct for the distinct contents of the model
MD5(data) ==
    CASE data = BytesA -> "9e107d9d372bb682"
      [] data = BytesB -> "e4d909c290d0fb1c"
      [] data = BytesC -> "a3cca2b2aa1e3b5b"
      [] OTHER -> "d41d8cd98f00b204"

get_pdf_hash(pdf_bytes) == MD5(pdf_bytes)

\* f"{pdf_hash}_{page_num}_{quality}"
CacheKey(pdf_bytes, page_num, quality) ==
    <<get_pdf_hash(pdf_bytes), page_num, quality>>

\* quality settings whose fallback is the low tier
QualitySettingsFallbackLow(quality) ==
    CASE quality = "low" -> [dpi |-> 72, jpeg_quality |-> 70]
      [] quality = "medium" -> [dpi |-> 150, jpeg_quality |-> 85]
      [] quality = "high" -> [dpi |-> 200, jpeg_quality |-> 95]
      [] OTHER -> [dpi |-> 72, jpeg_quality |-> 70]

\* lines 88-94: quality_settings.get(quality, quality_settings['medium'])
quality_settings(quality) ==
    CASE quality = "low" -> [dpi |-> 72, jpeg_quality |-> 70]
      [] quality = "medium" -> [dpi |-> 150, jpeg_quality |-> 85]
      [] quality = "high" -> [dpi |-> 200, jpeg_quality |-> 95]
      [] OTHER -> [dpi |-> 150, jpeg_quality |-> 85]

\* img.thumbnail((MAX, MAX)): scale down to fit, keeping the aspect ratio
Thumbnail(w, h) ==
    IF w > MAX_IMAGE_DIMENSION \/ h > MAX_IMAGE_DIMENSION
    THEN IF w >= h
         THEN <<MAX_IMAGE_DIMENSION, (h * MAX_IMAGE_DIMENSION) \div w>>
         ELSE <<(w * MAX_IMAGE_DIMENSION) \div h, MAX_IMAGE_DIMENSION>>
    ELSE <<w, h>>

\* the base64 JPEG of one page: what page.get_pixmap, the resize and
\* img.save produce from the bytes, the page and the settings
RenderPage(pdf_bytes, page_num, settings) ==
    LET size == Thumbnail((PageWidthPt * settings.dpi) \div 72,
                          (PageHeightPt * settings.dpi) \div 72)
    IN  [content |-> pdf_bytes,
         page |-> ResolvePage(pdf_bytes, page_num),
         width |-> size[1],
         height |-> size[2],
         jpeg_quality |-> settings.jpeg_quality]

(***************************************************************************)
(* page_cache is a Python dict: a sequence of entries in insertion order.  *)
(***************************************************************************)
CacheKeys(cache) == {cache[i].key : i \in 1..Len(cache)}

\* a lookup that returns the value of the oldest entry
CacheGetOldest(cache, key) == Head(cache).value

\* self.page_cache[cache_key], for a key that is present
CacheGet(cache, key) ==
    cache[CHOOSE i \in 1..Len(cache) : cache[i].key = key].value

\* a pop of the newest entry instead of the oldest
PopNewest(cache) == SubSeq(cache, 1, Len(cache) - 1)

\* self.page_cache.pop(next(iter(self.page_cache)))
PopOldest(cache) == Tail(cache)

\* a store that never evicts
CacheStoreNoEvict(cache, key, img) == Append(cache, [key |-> key, value |-> img])

\* lines 141-148: self.page_cache[cache_key] = img_base64, with the eviction
CacheStore(cache, key, img) ==
    IF Len(cache) < MAX_PAGES_IN_MEMORY
    THEN Append(cache, [key |-> key, value |-> img])
    ELSE Append(IF cache # <<>> THEN PopOldest(cache) ELSE cache,
                [key |-> key, value |-> img])

\* the keys that CacheStore drops from a cache
Evicted(cache) ==
    IF Len(cache) < MAX_PAGES_IN_MEMORY \/ cache = <<>>
    THEN <<>>
    ELSE <<Head(cache).key>>

\* a Python dict of results, page number -> image
EmptyDict == [x \in {} |-> None]

DictPut(d, k, v) == [x \in DOMAIN d \cup {k} |-> IF x = k THEN v ELSE d[x]]

\* convert_page_to_image without the cache lookup of lines 84-85
ConvertWithoutLookup(cache, pdf_bytes, page_num, quality) ==
    LET cache_key == CacheKey(pdf_bytes, page_num, quality)
        img == RenderPage(pdf_bytes, page_num, quality_settings(quality))
    IN  IF Malformed(pdf_bytes)
        THEN [cache |-> cache, ret |-> EmptyDict,
              opened |-> 0, closed |-> 0, rendered |-> <<>>, evicted |-> <<>>]
        ELSE IF page_num >= PageCount(pdf_bytes)
        THEN [cache |-> cache, ret |-> EmptyDict,
              opened |-> 1, closed |-> 1, rendered |-> <<>>, evicted |-> <<>>]
        ELSE IF Corrupt(pdf_bytes, ResolvePage(pdf_bytes, page_num))
        THEN [cache |-> cache, ret |-> EmptyDict,
              opened |-> 1, closed |-> 0, rendered |-> <<>>, evicted |-> <<>>]
        ELSE [cache |-> CacheStore(cache, cache_key, img),
              ret |-> DictPut(EmptyDict, page_num, img),
              opened |-> 1, closed |-> 1, rendered |-> <<cache_key>>,
              evicted |-> Evicted(cache)]

\* convert_page_to_image that stores the cache entry before it renders, so
\* that a failed render leaves an entry behind
ConvertStoreFirst(cache, pdf_bytes, page_num, quality) ==
    LET cache_key == CacheKey(pdf_bytes, page_num, quality)
        img == RenderPage(pdf_bytes, page_num, quality_settings(quality))
    IN  IF cache_key \in CacheKeys(cache)
        THEN [cache |-> cache, ret |-> DictPut(EmptyDict, page_num, CacheGet(cache, cache_key)),
              opened |-> 0, closed |-> 0, rendered |-> <<>>, evicted |-> <<>>]
        ELSE IF Malformed(pdf_bytes)
        THEN [cache |-> cache, ret |-> EmptyDict,
              opened |-> 0, closed |-> 0, rendered |-> <<>>, evicted |-> <<>>]
        ELSE IF page_num >= PageCount(pdf_bytes)
        THEN [cache |-> cache, ret |-> EmptyDict,
              opened |-> 1, closed |-> 1, rendered |-> <<>>, evicted |-> <<>>]
        ELSE IF Corrupt(pdf_bytes, ResolvePage(pdf_bytes, page_num))
        THEN [cache |-> CacheStore(cache, cache_key, img), ret |-> EmptyDict,
              opened |-> 1, closed |-> 0, rendered |-> <<>>, evicted |-> Evicted(cache)]
        ELSE [cache |-> CacheStore(cache, cache_key, img),
              ret |-> DictPut(EmptyDict, page_num, img),
              opened |-> 1, closed |-> 1, rendered |-> <<cache_key>>,
              evicted |-> Evicted(cache)]

\* convert_page_to_image that makes room in a full cache before it renders,
\* so that a failed render evicts an entry
ConvertEvictsBeforeRender(cache, pdf_bytes, page_num, quality) ==
    LET cache_key == CacheKey(pdf_bytes, page_num, quality)
        img == RenderPage(pdf_bytes, page_num, quality_settings(quality))
    IN  IF cache_key \in CacheKeys(cache)
        THEN [cache |-> cache, ret |-> DictPut(EmptyDict, page_num, CacheGet(cache, cache_key)),
              opened |-> 0, closed |-> 0, rendered |-> <<>>, evicted |-> <<>>]
        ELSE IF Malformed(pdf_bytes)
        THEN [cache |-> cache, ret |-> EmptyDict,
              opened |-> 0, closed |-> 0, rendered |-> <<>>, evicted |-> <<>>]
        ELSE IF page_num >= PageCount(pdf_bytes)
        THEN [cache |-> cache, ret |-> EmptyDict,
              opened |-> 1, closed |-> 1, rendered |-> <<>>, evicted |-> <<>>]
        ELSE IF Corrupt(pdf_bytes, ResolvePage(pdf_bytes, page_num))
        THEN [cache |-> IF Len(cache) < MAX_PAGES_IN_MEMORY THEN cache ELSE PopOldest(cache),
              ret |-> EmptyDict,
              opened |-> 1, closed |-> 0, rendered |-> <<>>, evicted |-> Evicted(cache)]
        ELSE [cache |-> CacheStore(cache, cache_key, img),
              ret |-> DictPut(EmptyDict, page_num, img),
              opened |-> 1, closed |-> 1, rendered |-> <<cache_key>>,
              evicted |-> Evicted(cache)]

\* convert_page_to_image that moves the entry it reads to the newest place
\* of the cache, as an LRU cache does
ConvertRefreshOnHit(cache, pdf_bytes, page_num, quality) ==
    LET cache_key == CacheKey(pdf_bytes, page_num, quality)
    IN  IF cache_key \in CacheKeys(cache)
        THEN LET i == CHOOSE j \in 1..Len(cache) : cache[j].key = cache_key
             IN  [cache |-> SubSeq(cache, 1, i - 1) \o SubSeq(cache, i + 1, Len(cache))
                              \o <<cache[i]>>,
                  ret |-> DictPut(EmptyDict, page_num, cache[i].value),
                  opened |-> 0, closed |-> 0, rendered |-> <<>>, evicted |-> <<>>]
        ELSE ConvertWithoutLookup(cache, pdf_bytes, page_num, quality)

(***************************************************************************)
(* PDFProcessor.convert_page_to_image.  The outcome of one call on a       *)
(* cache: the cache afterwards, the returned image (a dict that is empty   *)
(* for None), and what the call did with the document handle.              *)
(***************************************************************************)
convert_page_to_image(cache, pdf_bytes, page_num, quality) ==
    LET cache_key == CacheKey(pdf_bytes, page_num, quality)
        settings == quality_settings(quality)
        img == RenderPage(pdf_bytes, page_num, settings)
    IN  IF cache_key \in CacheKeys(cache)
        THEN \* lines 84-85: cache hit
             [cache |-> cache, ret |-> DictPut(EmptyDict, page_num, CacheGet(cache, cache_key)),
              opened |-> 0, closed |-> 0, rendered |-> <<>>, evicted |-> <<>>]
        ELSE IF Malformed(pdf_bytes)
        THEN \* line 98 raises, line 152 catches
             [cache |-> cache, ret |-> EmptyDict,
              opened |-> 0, closed |-> 0, rendered |-> <<>>, evicted |-> <<>>]
        ELSE IF page_num >= PageCount(pdf_bytes)
        THEN \* lines 100-102
             [cache |-> cache, ret |-> EmptyDict,
              opened |-> 1, closed |-> 1, rendered |-> <<>>, evicted |-> <<>>]
        ELSE IF Corrupt(pdf_bytes, ResolvePage(pdf_bytes, page_num))
        THEN \* lines 105-112 raise, line 152 catches: line 137 is not reached
             [cache |-> cache, ret |-> EmptyDict,
              opened |-> 1, closed |-> 0, rendered |-> <<>>, evicted |-> <<>>]
        ELSE \* lines 105-150
             [cache |-> CacheStore(cache, cache_key, img),
              ret |-> DictPut(EmptyDict, page_num, img),
              opened |-> 1, closed |-> 1, rendered |-> <<cache_key>>,
              evicted |-> Evicted(cache)]

\* the accumulator of a loop over pages after one more call with outcome r:
\* the cache, the results dict so far (stored: the call's image went into
\* it), and the handle counts
Accumulate(acc, page_num, r, stored) ==
    [cache |-> r.cache,
     ret |-> IF stored THEN DictPut(acc.ret, page_num, r.ret[page_num]) ELSE acc.ret,
     opened |-> acc.opened + r.opened,
     closed |-> acc.closed + r.closed,
     rendered |-> acc.rendered \o r.rendered,
     evicted |-> acc.evicted \o r.evicted]

\* a returned image is truthy, None is not
Truthy(r, page_num) == page_num \in DOMAIN r.ret

StartAcc(cache) ==
    [cache |-> cache, ret |-> EmptyDict, opened |-> 0, closed |-> 0, rendered |-> <<>>, evicted |-> <<>>]

\* a loop over the batch that stops at the first page without an image
RECURSIVE ConvertEachUntilFailure(_, _, _, _)
ConvertEachUntilFailure(acc, pdf_bytes, batch, quality) ==
    IF batch = <<>>
    THEN acc
    ELSE LET page_num == Head(batch)
             img_base64 == convert_page_to_image(acc.cache, pdf_bytes, page_num, quality)
         IN  IF Truthy(img_base64, page_num)
             THEN ConvertEachUntilFailure(Accumulate(acc, page_num, img_base64, TRUE),
                                          pdf_bytes, Tail(batch), quality)
             ELSE Accumulate(acc, page_num, img_base64, FALSE)

\* lines 173-176: for page_num in batch
RECURSIVE ConvertEach(_, _, _, _)
ConvertEach(acc, pdf_bytes, batch, quality) ==
    IF batch = <<>>
    THEN acc
    ELSE LET page_num == Head(batch)
             img_base64 == convert_page_to_image(acc.cache, pdf_bytes, page_num, quality)
         IN  IF Truthy(img_base64, page_num)
             THEN ConvertEach(Accumulate(acc, page_num, img_base64, TRUE),
                              pdf_bytes, Tail(batch), quality)
             ELSE ConvertEach(Accumulate(acc, page_num, img_base64, FALSE),
                              pdf_bytes, Tail(batch), quality)

\* a slice that is one page short of MAX_BATCH_SIZE: the last page of every
\* full group is left out
SliceShort(page_numbers, i) ==
    SubSeq(page_numbers, i + 1,
           IF i + MAX_BATCH_SIZE - 1 < Len(page_numbers)
           THEN i + MAX_BATCH_SIZE - 1 ELSE Len(page_numbers))

\* page_numbers[i:i + MAX_BATCH_SIZE], i counted from 0
Slice(page_numbers, i) ==
    SubSeq(page_numbers, i + 1,
           IF i + MAX_BATCH_SIZE < Len(page_numbers)
           THEN i + MAX_BATCH_SIZE ELSE Len(page_numbers))

\* lines 171-176: for i in range(0, len(page_numbers), MAX_BATCH_SIZE)
RECURSIVE ConvertChunks(_, _, _, _, _)
ConvertChunks(acc, pdf_bytes, page_numbers, quality, i) ==
    IF i >= Len(page_numbers)
    THEN acc
    ELSE ConvertChunks(ConvertEach(acc, pdf_bytes, Slice(page_numbers, i), quality),
                       pdf_bytes, page_numbers, quality, i + MAX_BATCH_SIZE)

convert_pages_batch(cache, pdf_bytes, page_numbers, quality) ==
    ConvertChunks(StartAcc(cache), pdf_bytes, page_numbers, quality, 0)

get_page_for_analysis(cache, pdf_bytes, page_num) ==
    convert_page_to_image(cache, pdf_bytes, page_num, "medium")

\* a clear that drops nothing
ClearNothing(cache) == cache

\* PDFProcessor.clear_cache
clear_cache(cache) == <<>>

\* StreamlitPDFManager.get_pages_on_demand
get_pages_on_demand(cache, pdf_bytes, page_numbers) ==
    convert_pages_batch(cache, pdf_bytes, page_numbers, "medium")

\* the larger of two numbers
Larger(a, b) == IF a >= b THEN a ELSE b

Min(a, b) == IF a < b THEN a ELSE b

\* lines 238-241: for i in range(initial_pages)
RECURSIVE InitialWindow(_, _, _, _)
InitialWindow(acc, pdf_bytes, i, initial_pages) ==
    IF i >= initial_pages
    THEN acc
    ELSE LET img == get_page_for_analysis(acc.cache, pdf_bytes, i)
         IN  IF Truthy(img, i)
             THEN InitialWindow(Accumulate(acc, i, img, TRUE),
                                pdf_bytes, i + 1, initial_pages)
             ELSE InitialWindow(Accumulate(acc, i, img, FALSE),
                                pdf_bytes, i + 1, initial_pages)

(***************************************************************************)
(* st.session_state: a dict from key names to values.  A missing key is    *)
(* outside the domain.                                                     *)
(***************************************************************************)
\* the value None of the numeric keys (user_id, current_pdf_id, ...): ids
\* of the database start at 1
NoId == 0

SessionDel(s, keys) == [k \in DOMAIN s \ keys |-> s[k]]

SessionSet(s, key, v) == [k \in DOMAIN s \cup {key} |-> IF k = key THEN v ELSE s[k]]

\* set a key only when it is missing
SessionDefault(s, key, v) == IF key \in DOMAIN s THEN s ELSE SessionSet(s, key, v)

\* auth.init_session_state
init_session_state(s) ==
    SessionDefault(SessionDefault(SessionDefault(s,
        "authenticated", FALSE), "user", NoId), "user_id", NoId)

\* app.py lines 40-54: what every run of the script does first
ScriptStart(s) ==
    SessionDefault(SessionDefault(SessionDefault(SessionDefault(SessionDefault(
        init_session_state(s),
        "current_pdf_id", NoId),
        "current_conversation_id", NoId),
        "messages", <<>>),
        "page", "main"),
        "pdf_processor", "PDFProcessor")

\* StreamlitPDFManager.cleanup_previous, on the session keys
cleanup_previous_session(s) == SessionDel(s, {"pdf_images"})

\* a process_pdf_info that reports the digest of no bytes
InfoWithEmptyHash(pdf_bytes) ==
    [page_count |-> PageCount(pdf_bytes), pdf_hash |-> MD5("")]

\* PDFProcessor.process_pdf_info: opens the document, so raises when malformed
process_pdf_info(pdf_bytes) ==
    [page_count |-> PageCount(pdf_bytes), pdf_hash |-> get_pdf_hash(pdf_bytes)]

\* StreamlitPDFManager.process_pdf_upload, after cleanup_previous: the
\* outcome on a cleared cache.  raised: the exception of process_pdf_info
\* leaves the function.
process_pdf_upload(cache, pdf_bytes, max_initial_pages) ==
    IF Malformed(pdf_bytes)
    THEN [StartAcc(cache) EXCEPT !.opened = 0] @@
         [raised |-> TRUE, total_pages |-> 0, pdf_hash |-> ""]
    ELSE LET info == process_pdf_info(pdf_bytes)
             initial_pages == Min(max_initial_pages, info.page_count)
             acc == InitialWindow([StartAcc(cache) EXCEPT !.opened = 1, !.closed = 1],
                                  pdf_bytes, 0, initial_pages)
         IN  acc @@ [raised |-> FALSE, total_pages |-> info.page_count,
                     pdf_hash |-> info.pdf_hash]

(***************************************************************************)
(* memory_utils.py: SessionStateManager and cleanup_old_pdfs_from_session. *)
(***************************************************************************)
MAX_SESSION_SIZE_MB == 200
WARNING_THRESHOLD_MB == 160
CRITICAL_THRESHOLD_MB == 180

PRESERVE_KEYS ==
    {"authenticated", "user_id", "username", "email",
     "full_name", "company", "page", "pdf_processor"}

\* a cleanup that removes every key it is not told to preserve
CleanupAllButPreserved(s, preserve_data) ==
    SessionDel(s, {key \in DOMAIN s : ~(preserve_data /\ key \in PRESERVE_KEYS)})

cleanup_session(s, preserve_data) ==
    LET keys_to_remove ==
          {key \in DOMAIN s :
              /\ ~(preserve_data /\ key \in PRESERVE_KEYS)
              /\ key \in {"pdf_images", "messages", "current_pdf_id",
                          "current_conversation_id", "temp_data"}}
    IN  SessionDel(s, keys_to_remove)

\* the oldest n messages instead of the most recent
FirstMessages(msgs, n) ==
    IF Len(msgs) <= n THEN msgs ELSE SubSeq(msgs, 1, n)

\* other_msgs[-max_messages:], for max_messages >= 0: the slice [-0:] is the
\* whole list
LastMessages(msgs, n) ==
    IF n = 0 \/ Len(msgs) <= n THEN msgs ELSE SubSeq(msgs, Len(msgs) - n + 1, Len(msgs))

IsSystem(m) == m.role = "system"

IsNotSystem(m) == m.role # "system"

\* a trimmer that keeps the last max_messages messages whatever their role
TrimmedWithoutSystem(messages, max_messages) ==
    LastMessages(messages, max_messages)

\* the list that optimize_messages builds
TrimmedMessages(messages, max_messages) ==
    SelectSeq(messages, IsSystem)
      \o LastMessages(SelectSeq(messages, IsNotSystem), max_messages)

optimize_messages(s, max_messages) ==
    IF "messages" \in DOMAIN s /\ Len(s["messages"]) > max_messages
    THEN SessionSet(s, "messages", TrimmedMessages(s["messages"], max_messages))
    ELSE s

\* a classification whose thresholds are inclusive
CheckMemoryUsageInclusive(session_size) ==
    IF session_size >= MAX_SESSION_SIZE_MB THEN "critical"
    ELSE IF session_size >= CRITICAL_THRESHOLD_MB THEN "critical"
    ELSE IF session_size >= WARNING_THRESHOLD_MB THEN "warning"
    ELSE "normal"

\* the status of check_memory_usage for a sampled session size in MB
check_memory_usage(session_size) ==
    IF session_size > MAX_SESSION_SIZE_MB THEN "critical"
    ELSE IF session_size > CRITICAL_THRESHOLD_MB THEN "critical"
    ELSE IF session_size > WARNING_THRESHOLD_MB THEN "warning"
    ELSE "normal"

\* an auto_cleanup whose critical branch leaves the cache alone
AutoCleanupKeepsCache(s, cache, session_size) ==
    LET status == check_memory_usage(session_size)
    IN  IF status = "critical"
        THEN [session |-> optimize_messages(cleanup_session(s, TRUE), 10),
              cache |-> cache, ret |-> TRUE]
        ELSE IF status = "warning"
        THEN [session |-> optimize_messages(s, 15), cache |-> cache, ret |-> FALSE]
        ELSE [session |-> s, cache |-> cache, ret |-> FALSE]

\* an auto_cleanup whose warning branch clears the cache as well
AutoCleanupWarningClears(s, cache, session_size) ==
    LET status == check_memory_usage(session_size)
    IN  IF status = "critical"
        THEN [session |-> optimize_messages(cleanup_session(s, TRUE), 10),
              cache |-> clear_cache(cache), ret |-> TRUE]
        ELSE IF status = "warning"
        THEN [session |-> optimize_messages(s, 15), cache |-> clear_cache(cache),
              ret |-> FALSE]
        ELSE [session |-> s, cache |-> cache, ret |-> FALSE]

\* an auto_cleanup whose critical branch drops the oldest message of the
\* transcript each time it runs
AutoCleanupDropOne(s, cache, session_size) ==
    LET status == check_memory_usage(session_size)
    IN  IF status = "critical"
        THEN [session |-> IF "messages" \in DOMAIN s /\ s["messages"] # <<>>
                          THEN SessionSet(s, "messages", Tail(s["messages"]))
                          ELSE s,
              cache |-> clear_cache(cache), ret |-> TRUE]
        ELSE IF status = "warning"
        THEN [session |-> optimize_messages(s, 15), cache |-> cache, ret |-> FALSE]
        ELSE [session |-> s, cache |-> cache, ret |-> FALSE]

\* an auto_cleanup that trims the transcript at normal level too
AutoCleanupNormalTrims(s, cache, session_size) ==
    LET status == check_memory_usage(session_size)
    IN  IF status = "critical"
        THEN LET s1 == optimize_messages(cleanup_session(s, TRUE), 10)
             IN  [session |-> s1,
                  cache |-> IF "pdf_processor" \in DOMAIN s1
                            THEN clear_cache(cache) ELSE cache,
                  ret |-> TRUE]
        ELSE [session |-> optimize_messages(s, 15), cache |-> cache, ret |-> FALSE]

\* SessionStateManager.auto_cleanup on the session and its processor's cache
auto_cleanup(s, cache, session_size) ==
    LET status == check_memory_usage(session_size)
    IN  IF status = "critical"
        THEN LET s1 == optimize_messages(cleanup_session(s, TRUE), 10)
             IN  [session |-> s1,
                  cache |-> IF "pdf_processor" \in DOMAIN s1
                            THEN clear_cache(cache) ELSE cache,
                  ret |-> TRUE]
        ELSE IF status = "warning"
        THEN [session |-> optimize_messages(s, 15), cache |-> cache, ret |-> FALSE]
        ELSE [session |-> s, cache |-> cache, ret |-> FALSE]

\* a cleanup of the old PDF that keeps current_pdf_id
CleanupKeepingPdfId(s) == SessionDel(s, {"pdf_images", "pdf_data", "pdf_bytes"})

cleanup_old_pdfs_from_session(s) ==
    SessionDel(s, {"pdf_images", "current_pdf_id", "pdf_data", "pdf_bytes"})

(***************************************************************************)
(* db_service.py: the tables pdfs and conversations, as functions from the *)
(* row id.  The messages of a conversation are not kept in the model: what *)
(* get_conversation_messages returns is an input of load_conversation.     *)
(***************************************************************************)
MaxOf(S) == CHOOSE x \in S : \A y \in S : y <= x

\* the id of a new row: an INTEGER PRIMARY KEY of SQLite
NewId(table) == IF DOMAIN table = {} THEN 1 ELSE MaxOf(DOMAIN table) + 1

Insert(table, row) ==
    [id \in DOMAIN table \cup {NewId(table)} |->
        IF id \in DOMAIN table THEN table[id] ELSE row]

\* get_pdf_by_id finds a row
PdfExists(table, pdf_id, user_id) ==
    pdf_id \in DOMAIN table /\ table[pdf_id].user_id = user_id

\* delete_pdf: the row goes, its conversations keep a NULL pdf_id
delete_pdf_rows(table, pdf_id) == [id \in DOMAIN table \ {pdf_id} |-> table[id]]

delete_pdf_conversations(convs, pdf_id) ==
    [id \in DOMAIN convs |->
        IF convs[id].pdf_id = pdf_id
        THEN [convs[id] EXCEPT !.pdf_id = NoId] ELSE convs[id]]

\* get_user_conversations(user_id, pdf_id)
ConversationsOf(convs, user_id, pdf_id) ==
    {id \in DOMAIN convs : convs[id].user_id = user_id /\ convs[id].pdf_id = pdf_id}

(***************************************************************************)
(* State.                                                                  *)
(***************************************************************************)
VARIABLES
    page_cache,     \* PDFProcessor.page_cache of the session's processor
    session,        \* st.session_state
    last,           \* the last call on the processor: arguments and outcome
    pdfs,           \* table pdfs: id -> [user_id, filename, file_data]
    conversations,  \* table conversations: id -> [user_id, pdf_id]
    pc,             \* where the running handler of the session stands
    local           \* the local variables of the running handler

vars == <<page_cache, session, last, pdfs, conversations, pc, local>>

dbvars == <<pdfs, conversations>>

appvars == <<session, pdfs, conversations, pc, local>>

NoLocal == [kind |-> "none", filename |-> "", file_data |-> "", pdf_id |-> NoId,
            conversation_id |-> NoId]

NoCall ==
    [op |-> "none", pdf_bytes |-> "", page_numbers |-> <<>>, quality |-> "",
     ret |-> EmptyDict, raised |-> FALSE, total_pages |-> 0, pdf_hash |-> "",
     status |-> "", analysis |-> "none", sent |-> <<>>,
     opened |-> 0, closed |-> 0, rendered |-> <<>>, evicted |-> <<>>,
     max_initial_pages |-> 0, max_messages |-> 0, session_size |-> 0,
     cleaned |-> FALSE, previous |-> [op |-> "none", session_size |-> 0]]

\* the record of a call from its outcome r
Call(op, pdf_bytes, page_numbers, quality, r) ==
    [NoCall EXCEPT
       !.op = op, !.pdf_bytes = pdf_bytes, !.page_numbers = page_numbers,
       !.quality = quality, !.ret = r.ret,
       !.raised = IF "raised" \in DOMAIN r THEN r.raised ELSE FALSE,
       !.total_pages = IF "total_pages" \in DOMAIN r THEN r.total_pages ELSE 0,
       !.pdf_hash = IF "pdf_hash" \in DOMAIN r THEN r.pdf_hash ELSE "",
       !.opened = r.opened, !.closed = r.closed,
       !.rendered = r.rendered, !.evicted = r.evicted]

\* the record of a process_pdf_upload call
UploadCall(pdf_bytes, max_initial_pages, r) ==
    [Call("process_pdf_upload", pdf_bytes, <<>>, "medium", r)
       EXCEPT !.max_initial_pages = max_initial_pages]

Init ==
    /\ page_cache = <<>>
    /\ session = ScriptStart(<<>>)
    /\ last = NoCall
    /\ pdfs = <<>>
    /\ conversations = <<>>
    /\ pc = "idle"
    /\ local = NoLocal

(***************************************************************************)
(* The calls on the processor and its manager, with their inputs.          *)
(***************************************************************************)
Qualities == {"low", "medium", "high", "ultra"}

UploadBytes == {BytesA, BytesB, BytesC, BytesM}

\* (bytes, page, quality) of the single-page requests
SingleRequests ==
    {<<BytesA, 0, "medium">>, <<BytesB, 0, "ultra">>,
     <<BytesB, NumPagesB, "medium">>, <<BytesC, 1, "medium">>,
     <<BytesM, 0, "medium">>}

\* (bytes, page numbers, quality) of the batch requests
BatchRequests ==
    {<<BytesC, <<0, 1, 2>>, "medium">>, <<BytesB, <<-1, NumPagesB, 1>>, "medium">>}

\* (bytes, page numbers) of the on-demand requests
OnDemandRequests ==
    {<<BytesB, <<10, 11, 12, 13, 14, 15>> >>,
     <<BytesB, [i \in 1..NumPagesB |-> i - 1]>>}

\* max_initial_pages: int = 10, the default of process_pdf_upload
DefaultInitialPages == 10

CallConvertPage ==
    \E req \in SingleRequests :
        LET r == convert_page_to_image(page_cache, req[1], req[2], req[3])
        IN  /\ page_cache' = r.cache
            /\ last' = Call("convert_page_to_image", req[1], <<req[2]>>, req[3], r)
            /\ UNCHANGED appvars

CallConvertBatch ==
    \E req \in BatchRequests :
        LET r == convert_pages_batch(page_cache, req[1], req[2], req[3])
        IN  /\ page_cache' = r.cache
            /\ last' = Call("convert_pages_batch", req[1], req[2], req[3], r)
            /\ UNCHANGED appvars

CallGetPagesOnDemand ==
    \E req \in OnDemandRequests :
        LET r == get_pages_on_demand(page_cache, req[1], req[2])
        IN  /\ page_cache' = r.cache
            /\ last' = Call("get_pages_on_demand", req[1], req[2], "medium", r)
            /\ UNCHANGED appvars

CallProcessPdfUpload ==
    \E pdf_bytes \in UploadBytes :
        LET r == process_pdf_upload(clear_cache(page_cache), pdf_bytes, DefaultInitialPages)
        IN  /\ page_cache' = r.cache
            /\ session' = cleanup_previous_session(session)
            /\ last' = UploadCall(pdf_bytes, DefaultInitialPages, r)
            /\ UNCHANGED <<pdfs, conversations, pc, local>>

CallClearCache ==
    /\ page_cache' = clear_cache(page_cache)
    /\ last' = [NoCall EXCEPT !.op = "clear_cache"]
    /\ UNCHANGED appvars

NextCache ==
    \/ CallConvertPage
    \/ CallConvertBatch
    \/ CallGetPagesOnDemand
    \/ CallProcessPdfUpload
    \/ CallClearCache

SpecCache == Init /\ [][NextCache]_vars

(***************************************************************************)
(* app.py: the handlers of one session.  A handler runs to its end before  *)
(* the next one starts.  The handlers that switch the document are split   *)
(* at the two cleanup calls they begin with; pc is "idle" between          *)
(* handlers.                                                               *)
(***************************************************************************)
MaxPdfs == 2
MaxConversations == 2
MaxMessages == 4

Users == {1}

UploadFiles ==
    {[filename |-> "a.pdf", file_data |-> BytesA],
     [filename |-> "b.pdf", file_data |-> BytesB],
     [filename |-> "c.pdf", file_data |-> BytesC],
     [filename |-> "m.pdf", file_data |-> BytesM]}

\* the files another session of the account uploads
OtherSessionFiles == {[filename |-> "b.pdf", file_data |-> BytesB]}

\* the chat inputs: the text, whether it has one of the keywords "page",
\* "show", "where", "location", and re.findall(r'page\s*(\d+)', text) as numbers
UserInputs ==
    {[text |-> "what is the scope", keyword |-> FALSE, refs |-> <<>>],
     [text |-> "show page 1", keyword |-> TRUE, refs |-> <<1>>],
     [text |-> "page 11 and page 99", keyword |-> TRUE, refs |-> <<11, 99>>]}

\* chat inputs that name a page twice, more than three pages, and page 0
PageInputs ==
    {[text |-> "page 1 and page 1", keyword |-> TRUE, refs |-> <<1, 1>>],
     [text |-> "page 1, page 2, page 3, page 4", keyword |-> TRUE,
      refs |-> <<1, 2, 3, 4>>],
     [text |-> "show page 0", keyword |-> TRUE, refs |-> <<0>>]}

\* the sampled session sizes in MB
SessionSizes == {100, 170, 190, 250}

\* what get_conversation_messages returns
StoredTranscripts ==
    {<<>>,
     <<[role |-> "user", text |-> "initial_prompt", images |-> <<>>],
       [role |-> "assistant", text |-> "analysis", images |-> <<>>]>>}

SystemMessage == [role |-> "system", text |-> "SYSTEM_PROMPT", images |-> <<>>]

Authenticated(s) == "authenticated" \in DOMAIN s /\ s["authenticated"]

\* line 411 and 415: the main content area shows the current PDF
CurrentPdfShown(s) ==
    /\ s["current_pdf_id"] # NoId
    /\ PdfExists(pdfs, s["current_pdf_id"], s["user_id"])

\* auth.login_form, a successful login
Login ==
    \E u \in Users :
        LET s0 == ScriptStart(session)
        IN  /\ pc = "idle"
            /\ ~Authenticated(s0)
            /\ session' = ScriptStart(
                 SessionSet(SessionSet(SessionSet(s0,
                   "authenticated", TRUE), "user", u), "user_id", u))
            /\ UNCHANGED <<page_cache, last, pdfs, conversations, pc, local>>

\* auth.logout
Logout ==
    LET s0 == ScriptStart(session)
        s1 == SessionSet(SessionSet(SessionSet(s0,
                "authenticated", FALSE), "user", NoId), "user_id", NoId)
    IN  /\ pc = "idle"
        /\ Authenticated(s0)
        /\ session' = ScriptStart(
             SessionDel(s1, {"current_pdf", "current_conversation", "messages", "pdf_images"}))
        /\ UNCHANGED <<page_cache, last, pdfs, conversations, pc, local>>

\* lines 322-325: "Upload & Analyze" up to cleanup_old_pdfs_from_session
UploadBeginWith(file) ==
    LET s0 == ScriptStart(session)
    IN  /\ pc = "idle"
        /\ Authenticated(s0)
        /\ Cardinality(DOMAIN pdfs) < MaxPdfs
        /\ Cardinality(DOMAIN conversations) < MaxConversations
        /\ session' = cleanup_old_pdfs_from_session(s0)
        /\ pc' = "cleanup_previous"
        /\ local' = [NoLocal EXCEPT !.kind = "upload", !.filename = file.filename,
                                    !.file_data = file.file_data]
        /\ UNCHANGED <<page_cache, last, pdfs, conversations>>

UploadBegin == \E file \in UploadFiles : UploadBeginWith(file)

\* lines 517-523: load_existing_pdf up to cleanup_old_pdfs_from_session
LoadExistingBegin ==
    \E pdf_id \in DOMAIN pdfs :
        LET s0 == ScriptStart(session)
        IN  /\ pc = "idle"
            /\ Authenticated(s0)
            /\ PdfExists(pdfs, pdf_id, s0["user_id"])
            /\ session' = cleanup_old_pdfs_from_session(s0)
            /\ pc' = "cleanup_previous"
            /\ local' = [NoLocal EXCEPT !.kind = "existing", !.pdf_id = pdf_id,
                                        !.file_data = pdfs[pdf_id].file_data]
            /\ UNCHANGED <<page_cache, last, pdfs, conversations>>

\* lines 561-582: the rest of load_conversation, from the messages on
LoadMessages(s, conversation_id, stored) ==
    ScriptStart(
      SessionSet(
        optimize_messages(SessionSet(s, "messages", <<SystemMessage>> \o stored), 50),
        "current_conversation_id", conversation_id))

\* lines 548-557: load_conversation of a conversation whose PDF exists, up
\* to cleanup_old_pdfs_from_session
LoadConversationBegin ==
    \E conversation_id \in DOMAIN conversations :
        LET s0 == ScriptStart(session)
            pdf_id == conversations[conversation_id].pdf_id
        IN  /\ pc = "idle"
            /\ Authenticated(s0)
            /\ conversations[conversation_id].user_id = s0["user_id"]
            /\ pdf_id # NoId
            /\ PdfExists(pdfs, pdf_id, s0["user_id"])
            /\ session' = cleanup_old_pdfs_from_session(s0)
            /\ pc' = "cleanup_previous"
            /\ local' = [NoLocal EXCEPT !.kind = "conversation", !.pdf_id = pdf_id,
                                        !.file_data = pdfs[pdf_id].file_data,
                                        !.conversation_id = conversation_id]
            /\ UNCHANGED <<page_cache, last, pdfs, conversations>>

\* lines 548-582: load_conversation of a conversation without a PDF
LoadConversationWithoutPdf ==
    \E conversation_id \in DOMAIN conversations, stored \in StoredTranscripts :
        LET s0 == ScriptStart(session)
            pdf_id == conversations[conversation_id].pdf_id
        IN  /\ pc = "idle"
            /\ Authenticated(s0)
            /\ conversations[conversation_id].user_id = s0["user_id"]
            /\ ~(pdf_id # NoId /\ PdfExists(pdfs, pdf_id, s0["user_id"]))
            /\ session' = LoadMessages(s0, conversation_id, stored)
            /\ UNCHANGED <<page_cache, last, pdfs, conversations, pc, local>>

\* process_pdf_upload, lines 228-229: cleanup_previous
CleanupPrevious ==
    /\ pc = "cleanup_previous"
    /\ session' = cleanup_previous_session(session)
    /\ page_cache' = clear_cache(page_cache)
    /\ pc' = "process"
    /\ UNCHANGED <<last, pdfs, conversations, local>>

\* analyze_pdf_with_gpt, lines 215-223: page_images[i] for i below
\* min(10, len(page_images)) raises KeyError when a page is missing
AnalysisRaises(page_images) ==
    \E i \in 0..(Min(10, Cardinality(DOMAIN page_images)) - 1) : i \notin DOMAIN page_images

\* lines 214-223: the images that analyze_pdf_with_gpt puts into the user
\* message, page_images[i] for i below min(10, len(page_images))
AnalysisImages(page_images) ==
    [i \in 1..Min(10, Cardinality(DOMAIN page_images)) |-> page_images[i - 1]]

\* lines 331-394: the upload of (filename, file_data) from process_pdf_info
\* on, in a session s whose processor holds cache, with the session size
\* that auto_cleanup samples at line 391: the session, the cache and the
\* tables afterwards
UploadEffect(s, cache, filename, file_data, session_size) ==
    LET r == process_pdf_upload(cache, file_data, DefaultInitialPages)
        pdf_id == NewId(pdfs)
        conversation_id == NewId(conversations)
        s1 == SessionSet(SessionSet(s, "current_pdf_id", pdf_id),
                         "current_conversation_id", conversation_id)
        s2 == SessionSet(s1, "messages",
                <<SystemMessage,
                  [role |-> "user", text |-> "initial_prompt", images |-> <<>>],
                  [role |-> "assistant", text |-> "analysis", images |-> <<>>]>>)
        c == auto_cleanup(s2, r.cache, session_size)
        stored_pdfs == Insert(pdfs, [user_id |-> s["user_id"],
                                     filename |-> filename,
                                     file_data |-> file_data])
        stored_conversations == Insert(conversations,
                                       [user_id |-> s["user_id"], pdf_id |-> pdf_id])
    IN  IF r.raised
        THEN \* the exception of process_pdf_info ends the handler
             [call |-> UploadCall(file_data, DefaultInitialPages, r),
              cache |-> r.cache, session |-> s,
              pdfs |-> pdfs, conversations |-> conversations]
        ELSE IF AnalysisRaises(r.ret)
        THEN \* the KeyError ends the handler at line 362
             [call |-> [UploadCall(file_data, DefaultInitialPages, r)
                          EXCEPT !.analysis = "raised"],
              cache |-> r.cache, session |-> s1,
              pdfs |-> stored_pdfs, conversations |-> stored_conversations]
        ELSE [call |-> [UploadCall(file_data, DefaultInitialPages, r)
                          EXCEPT !.analysis = "completed",
                                 !.sent = AnalysisImages(r.ret)],
              cache |-> c.cache, session |-> ScriptStart(c.session),
              pdfs |-> stored_pdfs, conversations |-> stored_conversations]

UploadProcessAt(session_size) ==
    LET e == UploadEffect(session, page_cache, local.filename, local.file_data,
                          session_size)
    IN  /\ pc = "process"
        /\ local.kind = "upload"
        /\ last' = e.call
        /\ pc' = "idle"
        /\ local' = NoLocal
        /\ page_cache' = e.cache
        /\ session' = e.session
        /\ pdfs' = e.pdfs
        /\ conversations' = e.conversations

UploadProcess == \E session_size \in SessionSizes : UploadProcessAt(session_size)

\* lines 526-545: load_existing_pdf from process_pdf_upload on; with a
\* conversation of the PDF it goes into load_conversation, up to its
\* cleanup_old_pdfs_from_session
LoadExistingProcess ==
    LET r == process_pdf_upload(page_cache, local.file_data, 5)
        s1 == SessionSet(session, "current_pdf_id", local.pdf_id)
        found == ConversationsOf(conversations, session["user_id"], local.pdf_id)
        conversation_id == NewId(conversations)
    IN  /\ pc = "process"
        /\ local.kind = "existing"
        /\ last' = UploadCall(local.file_data, 5, r)
        /\ page_cache' = r.cache
        /\ UNCHANGED pdfs
        /\ IF r.raised
           THEN /\ pc' = "idle"
                /\ local' = NoLocal
                /\ UNCHANGED <<session, conversations>>
           ELSE IF found # {}
           THEN \E c \in found :
                    /\ session' = cleanup_old_pdfs_from_session(s1)
                    /\ pc' = "cleanup_previous"
                    /\ local' = [local EXCEPT !.kind = "conversation",
                                              !.conversation_id = c]
                    /\ UNCHANGED conversations
           ELSE /\ conversations' = Insert(conversations,
                                           [user_id |-> session["user_id"],
                                            pdf_id |-> local.pdf_id])
                /\ session' = ScriptStart(
                     SessionSet(SessionSet(s1,
                       "current_conversation_id", conversation_id),
                       "messages", <<SystemMessage>>))
                /\ pc' = "idle"
                /\ local' = NoLocal

\* lines 558-582: load_conversation from process_pdf_upload on
LoadConversationProcess ==
    \E stored \in StoredTranscripts :
        LET r == process_pdf_upload(page_cache, local.file_data, 5)
            s1 == SessionSet(session, "current_pdf_id", local.pdf_id)
        IN  /\ pc = "process"
            /\ local.kind = "conversation"
            /\ last' = UploadCall(local.file_data, 5, r)
            /\ page_cache' = r.cache
            /\ pc' = "idle"
            /\ local' = NoLocal
            /\ session' = IF r.raised THEN session
                          ELSE LoadMessages(s1, local.conversation_id, stored)
            /\ UNCHANGED <<pdfs, conversations>>

\* page indices that keep the number of the reference
PageIndicesOneBased(refs) ==
    [i \in 1..Min(3, Len(refs)) |-> refs[i]]

\* page indices of all the references, without the cut at three
PageIndicesUncut(refs) ==
    [i \in 1..Len(refs) |-> refs[i] - 1]

\* line 250: [int(num) - 1 for num in page_nums[:3]]
PageIndices(refs) ==
    [i \in 1..Min(3, Len(refs)) |-> refs[i] - 1]

\* lines 255-263: the images of the pages that came back, in request order
RECURSIVE AttachedImages(_, _)
AttachedImages(page_nums, page_images) ==
    IF page_nums = <<>>
    THEN <<>>
    ELSE (IF Head(page_nums) \in DOMAIN page_images
          THEN <<page_images[Head(page_nums)]>> ELSE <<>>)
         \o AttachedImages(Tail(page_nums), page_images)

\* a chat turn can start: the main content area shows the chat input
ChatEnabled(s) ==
    LET s0 == ScriptStart(s)
    IN  /\ Authenticated(s0)
        /\ CurrentPdfShown(s0)
        /\ Len(s0["messages"]) < MaxMessages

\* lines 438-468 with chat_with_context: one chat turn in a session s whose
\* processor holds cache.  messages_history is the list
\* st.session_state.messages until optimize_messages puts a new list under
\* the key.  session_size is what auto_cleanup samples at line 274.
ChatEffect(s, cache, input, session_size) ==
    LET s0 == ScriptStart(s)
        pdf_id == s0["current_pdf_id"]
        file_data == pdfs[pdf_id].file_data
        fetch == input.keyword /\ input.refs # <<>>
        page_nums == PageIndices(input.refs)
        r == IF fetch
             THEN get_pages_on_demand(cache, file_data, page_nums)
             ELSE StartAcc(cache)
        new_message == [role |-> "user", text |-> input.text,
                        images |-> IF fetch THEN AttachedImages(page_nums, r.ret)
                                   ELSE <<>>]
        history1 == Append(s0["messages"], new_message)
        s1 == optimize_messages(SessionSet(s0, "messages", history1), 50)
        same_list == Len(history1) <= 50
        history2 == Append(history1,
                      [role |-> "assistant", text |-> "reply", images |-> <<>>])
        s2 == IF same_list THEN SessionSet(s1, "messages", history2) ELSE s1
        c == auto_cleanup(s2, r.cache, session_size)
    IN  [fetch |-> fetch,
         call |-> Call("get_pages_on_demand", file_data, page_nums, "medium", r),
         \* line 267: the transcript of the session after optimize_messages
         trimmed |-> s1["messages"],
         \* line 270: messages_history, the list handed to chat_completion
         engine |-> history1,
         cache |-> c.cache,
         session |-> IF "current_conversation_id" \in DOMAIN c.session
                     THEN ScriptStart(c.session)
                     ELSE \* line 454 raises on the missing key
                          c.session]

ChatTurnWith(input, session_size) ==
    LET e == ChatEffect(session, page_cache, input, session_size)
    IN  /\ pc = "idle"
        /\ ChatEnabled(session)
        /\ page_cache' = e.cache
        /\ last' = IF e.fetch THEN e.call ELSE last
        /\ session' = e.session
        /\ UNCHANGED <<pdfs, conversations, pc, local>>

ChatTurnAt(session_size) == \E input \in UserInputs : ChatTurnWith(input, session_size)

ChatTurn == \E session_size \in SessionSizes : ChatTurnAt(session_size)

\* lines 486-491: the button "New Analysis"
NewAnalysisEffect(s) ==
    ScriptStart(
      SessionSet(SessionSet(SessionSet(SessionSet(ScriptStart(s),
        "current_pdf_id", NoId),
        "current_conversation_id", NoId),
        "pdf_images", None),
        "messages", <<>>))

NewAnalysis ==
    LET s0 == ScriptStart(session)
    IN  /\ pc = "idle"
        /\ Authenticated(s0)
        /\ CurrentPdfShown(s0)
        /\ session' = NewAnalysisEffect(session)
        /\ UNCHANGED <<page_cache, last, pdfs, conversations, pc, local>>

\* lines 303-306: the delete button of a PDF
DeletePdf ==
    \E pdf_id \in DOMAIN pdfs :
        LET s0 == ScriptStart(session)
        IN  /\ pc = "idle"
            /\ Authenticated(s0)
            /\ PdfExists(pdfs, pdf_id, s0["user_id"])
            /\ pdfs' = delete_pdf_rows(pdfs, pdf_id)
            /\ conversations' = delete_pdf_conversations(conversations, pdf_id)
            /\ session' = s0
            /\ UNCHANGED <<page_cache, last, pc, local>>

\* lines 322-345 run by another session of the same account: save_pdf and
\* create_conversation add their rows to the shared tables, between two
\* handlers of this session; the state of this session is not touched
OtherSessionUpload ==
    \E file \in OtherSessionFiles, u \in Users :
        /\ pc = "idle"
        /\ ~Malformed(file.file_data)
        /\ Cardinality(DOMAIN pdfs) < MaxPdfs
        /\ Cardinality(DOMAIN conversations) < MaxConversations
        /\ pdfs' = Insert(pdfs, [user_id |-> u, filename |-> file.filename,
                                 file_data |-> file.file_data])
        /\ conversations' = Insert(conversations,
                                   [user_id |-> u, pdf_id |-> NewId(pdfs)])
        /\ UNCHANGED <<page_cache, session, last, pc, local>>

\* memory_utils.py lines 190-202: the buttons "Clean" and "Reset"
MonitorCleanup ==
    \E preserve_data \in BOOLEAN :
        LET s0 == ScriptStart(session)
        IN  /\ pc = "idle"
            /\ Authenticated(s0)
            /\ session' = ScriptStart(cleanup_session(s0, preserve_data))
            /\ UNCHANGED <<page_cache, last, pdfs, conversations, pc, local>>

Next ==
    \/ Login
    \/ Logout
    \/ UploadBegin
    \/ LoadExistingBegin
    \/ LoadConversationBegin
    \/ LoadConversationWithoutPdf
    \/ CleanupPrevious
    \/ UploadProcess
    \/ LoadExistingProcess
    \/ LoadConversationProcess
    \/ ChatTurn
    \/ NewAnalysis
    \/ DeletePdf
    \/ OtherSessionUpload
    \/ MonitorCleanup

Spec == Init /\ [][Next]_vars

(***************************************************************************)
(* Uploads of files whose names and contents agree and differ in every     *)
(* way: the same bytes under two names, two contents under one name.       *)
(***************************************************************************)
IdentityFiles ==
    {[filename |-> "a.pdf", file_data |-> BytesA],
     [filename |-> "copy.pdf", file_data |-> BytesA],
     [filename |-> "a.pdf", file_data |-> BytesB],
     [filename |-> "c.pdf", file_data |-> BytesC],
     [filename |-> "m.pdf", file_data |-> BytesM]}

UploadBeginIdentity == \E file \in IdentityFiles : UploadBeginWith(file)

NextIdentity ==
    \/ Login
    \/ UploadBeginIdentity
    \/ CleanupPrevious
    \/ UploadProcess
    \/ DeletePdf

SpecIdentity == Init /\ [][NextIdentity]_vars

(***************************************************************************)
(* Two browser sessions of one account.  Each session has its own          *)
(* st.session_state, and in it its own PDFProcessor (pdf_processor.py      *)
(* lines 211-215): in this specification session and page_cache are        *)
(* functions of the session number.  The tables are the one database.  A   *)
(* handler of a session runs to its end before another handler starts.     *)
(***************************************************************************)
Sessions == {1, 2}

SessionFiles ==
    {[filename |-> "a.pdf", file_data |-> BytesA],
     [filename |-> "b.pdf", file_data |-> BytesB]}

\* the session state after the login of user u
LoggedIn(u) ==
    ScriptStart(SessionSet(SessionSet(SessionSet(ScriptStart(<<>>),
      "authenticated", TRUE), "user", u), "user_id", u))

InitSessions ==
    /\ session = [sid \in Sessions |-> LoggedIn(1)]
    /\ page_cache = [sid \in Sessions |-> <<>>]
    /\ last = NoCall
    /\ pdfs = <<>>
    /\ conversations = <<>>
    /\ pc = "idle"
    /\ local = NoLocal

\* app.py lines 322-394 in session sid: "Upload & Analyze"
SessionUpload(sid) ==
    \E file \in SessionFiles, session_size \in SessionSizes :
        LET s0 == cleanup_previous_session(
                    cleanup_old_pdfs_from_session(ScriptStart(session[sid])))
            e == UploadEffect(s0, clear_cache(page_cache[sid]),
                              file.filename, file.file_data, session_size)
        IN  /\ Authenticated(session[sid])
            /\ Cardinality(DOMAIN pdfs) < MaxPdfs
            /\ Cardinality(DOMAIN conversations) < MaxConversations
            /\ session' = [session EXCEPT ![sid] = e.session]
            /\ page_cache' = [page_cache EXCEPT ![sid] = e.cache]
            /\ last' = e.call
            /\ pdfs' = e.pdfs
            /\ conversations' = e.conversations
            /\ UNCHANGED <<pc, local>>

\* app.py lines 438-468 in session sid: a chat turn, with its on-demand fetch
SessionChat(sid) ==
    \E input \in UserInputs, session_size \in SessionSizes :
        LET e == ChatEffect(session[sid], page_cache[sid], input, session_size)
        IN  /\ ChatEnabled(session[sid])
            /\ session' = [session EXCEPT ![sid] = e.session]
            /\ page_cache' = [page_cache EXCEPT ![sid] = e.cache]
            /\ last' = IF e.fetch THEN e.call ELSE last
            /\ UNCHANGED <<pdfs, conversations, pc, local>>

\* memory_utils.py lines 190-202 in session sid: "Clean" and "Reset"
SessionCleanup(sid) ==
    \E preserve_data \in BOOLEAN :
        LET s0 == ScriptStart(session[sid])
        IN  /\ Authenticated(s0)
            /\ session' = [session EXCEPT
                              ![sid] = ScriptStart(cleanup_session(s0, preserve_data))]
            /\ UNCHANGED <<page_cache, last, pdfs, conversations, pc, local>>

\* app.py lines 486-491 in session sid: "New Analysis"
SessionNewAnalysis(sid) ==
    LET s0 == ScriptStart(session[sid])
    IN  /\ Authenticated(s0)
        /\ CurrentPdfShown(s0)
        /\ session' = [session EXCEPT ![sid] = NewAnalysisEffect(session[sid])]
        /\ UNCHANGED <<page_cache, last, pdfs, conversations, pc, local>>

\* app.py lines 303-306 in session sid: the delete button of a PDF
SessionDelete(sid) ==
    \E pdf_id \in DOMAIN pdfs :
        LET s0 == ScriptStart(session[sid])
        IN  /\ Authenticated(s0)
            /\ PdfExists(pdfs, pdf_id, s0["user_id"])
            /\ pdfs' = delete_pdf_rows(pdfs, pdf_id)
            /\ conversations' = delete_pdf_conversations(conversations, pdf_id)
            /\ session' = [session EXCEPT ![sid] = s0]
            /\ UNCHANGED <<page_cache, last, pc, local>>

NextSessions ==
    \/ \E sid \in Sessions : SessionUpload(sid)
    \/ \E sid \in Sessions : SessionChat(sid)
    \/ \E sid \in Sessions : SessionCleanup(sid)
    \/ \E sid \in Sessions : SessionNewAnalysis(sid)
    \/ \E sid \in Sessions : SessionDelete(sid)

SpecSessions == InitSessions /\ [][NextSessions]_vars

(***************************************************************************)
(* The memory management calls on a session with a loaded conversation:    *)
(* optimize_messages as load_conversation and chat_with_context call it,   *)
(* auto_cleanup as chat_with_context and the upload call it.               *)
(***************************************************************************)
MaxStored == 60

\* the i-th message that get_conversation_messages returns
StoredMessage(i) ==
    [role |-> IF i % 2 = 1 THEN "user" ELSE "assistant",
     text |-> ToString(i), images |-> <<>>]

\* load_conversation, lines 562-575: the system prompt, then the n stored
\* messages
LoadedTranscript(n) == <<SystemMessage>> \o [i \in 1..n |-> StoredMessage(i)]

NonSystem(messages) == SelectSeq(messages, IsNotSystem)

\* the max_messages of the three calls of optimize_messages: the default,
\* and lines 139 and 150 of memory_utils.py
TrimCaps == {10, 15, 50}

\* the session of user 1 with the stored document 1 and n stored messages
LoadedSession(n) ==
    SessionSet(SessionSet(SessionSet(SessionSet(SessionSet(SessionSet(
      ScriptStart(<<>>),
      "authenticated", TRUE), "user", 1), "user_id", 1),
      "current_pdf_id", 1), "current_conversation_id", 1),
      "messages", LoadedTranscript(n))

InitMemory ==
    /\ \E n \in 0..MaxStored : session = LoadedSession(n)
    /\ page_cache \in {<<>>, process_pdf_upload(<<>>, BytesA, 5).cache}
    /\ last = NoCall
    /\ pdfs = Insert(<<>>, [user_id |-> 1, filename |-> "a.pdf", file_data |-> BytesA])
    /\ conversations = Insert(<<>>, [user_id |-> 1, pdf_id |-> 1])
    /\ pc = "idle"
    /\ local = NoLocal

CallOptimizeMessagesWith(max_messages) ==
    /\ session' = optimize_messages(session, max_messages)
    /\ last' = [NoCall EXCEPT !.op = "optimize_messages",
                              !.max_messages = max_messages,
                              !.previous = [op |-> last.op,
                                            session_size |-> last.session_size]]
    /\ UNCHANGED <<page_cache, pdfs, conversations, pc, local>>

CallOptimizeMessages ==
    \E max_messages \in TrimCaps : CallOptimizeMessagesWith(max_messages)

\* auto_cleanup runs after optimize_messages() has capped the transcript
CallAutoCleanupWith(session_size) ==
    LET r == auto_cleanup(session, page_cache, session_size)
    IN  /\ "messages" \in DOMAIN session => Len(session["messages"]) <= 50 + 1
        /\ session' = r.session
        /\ page_cache' = r.cache
        /\ last' = [NoCall EXCEPT !.op = "auto_cleanup",
                                  !.session_size = session_size,
                                  !.cleaned = r.ret,
                                  !.previous = [op |-> last.op,
                                                session_size |-> last.session_size]]
        /\ UNCHANGED <<pdfs, conversations, pc, local>>

CallAutoCleanup == \E session_size \in SessionSizes : CallAutoCleanupWith(session_size)

NextMemory ==
    \/ CallOptimizeMessages
    \/ CallAutoCleanup

SpecMemory == InitMemory /\ [][NextMemory]_vars

(***************************************************************************)
(* The memory monitor at session sizes around its thresholds:              *)
(* check_memory_usage as the widget calls it, auto_cleanup as the handlers *)
(* call it, on a session with up to MaxMonitorStored stored messages.      *)
(***************************************************************************)
MaxMonitorStored == 20
Margin == 1

\* the sampled sizes: each threshold, and the sizes within Margin of it
ThresholdSizes ==
    UNION {(t - Margin)..(t + Margin) :
             t \in {WARNING_THRESHOLD_MB, CRITICAL_THRESHOLD_MB, MAX_SESSION_SIZE_MB}}

InitMonitor ==
    /\ \E n \in 0..MaxMonitorStored : session = LoadedSession(n)
    /\ page_cache \in {<<>>, process_pdf_upload(<<>>, BytesA, 5).cache}
    /\ last = NoCall
    /\ pdfs = Insert(<<>>, [user_id |-> 1, filename |-> "a.pdf", file_data |-> BytesA])
    /\ conversations = Insert(<<>>, [user_id |-> 1, pdf_id |-> 1])
    /\ pc = "idle"
    /\ local = NoLocal

\* memory_utils.py line 163: the widget samples the status
CallCheckMemoryUsage ==
    \E session_size \in ThresholdSizes :
        /\ last' = [NoCall EXCEPT !.op = "check_memory_usage",
                                  !.session_size = session_size,
                                  !.status = check_memory_usage(session_size)]
        /\ UNCHANGED <<page_cache, session, pdfs, conversations, pc, local>>

CallAutoCleanupAtThreshold ==
    \E session_size \in ThresholdSizes : CallAutoCleanupWith(session_size)

NextMonitor ==
    \/ CallCheckMemoryUsage
    \/ CallAutoCleanupAtThreshold

SpecMonitor == InitMonitor /\ [][NextMonitor]_vars

(***************************************************************************)
(* optimize_messages as a function of the transcript and the cap: every   *)
(* transcript of up to MaxTrimLen messages of the three roles, every cap   *)
(* up to MaxCap.  A message carries its position in the first transcript   *)
(* as its text.                                                            *)
(***************************************************************************)
MaxTrimLen == 5
MaxCap == 3

Roles == {"system", "user", "assistant"}

RoleSequences == UNION {[1..n -> Roles] : n \in 0..MaxTrimLen}

TranscriptOf(roles) ==
    [i \in 1..Len(roles) |-> [role |-> roles[i], text |-> ToString(i), images |-> <<>>]]

InitTrim ==
    /\ \E roles \in RoleSequences :
         session = SessionSet(LoadedSession(0), "messages", TranscriptOf(roles))
    /\ page_cache = <<>>
    /\ last = NoCall
    /\ pdfs = Insert(<<>>, [user_id |-> 1, filename |-> "a.pdf", file_data |-> BytesA])
    /\ conversations = Insert(<<>>, [user_id |-> 1, pdf_id |-> 1])
    /\ pc = "idle"
    /\ local = NoLocal

CallOptimizeSmall ==
    \E max_messages \in 0..MaxCap : CallOptimizeMessagesWith(max_messages)

NextTrim == CallOptimizeSmall

SpecTrim == InitTrim /\ [][NextTrim]_vars

(***************************************************************************)
(* The chat on a loaded document: the session after load_existing_pdf or   *)
(* load_conversation of a stored document with up to two stored messages,  *)
(* then chat turns.                                                        *)
(***************************************************************************)
ChatFiles == {f \in UploadFiles : ~Malformed(f.file_data)}

InitChat ==
    \E file \in ChatFiles, n \in 0..2 :
        LET r == process_pdf_upload(<<>>, file.file_data, 5)
        IN  /\ page_cache = r.cache
            /\ session = LoadedSession(n)
            /\ last = UploadCall(file.file_data, 5, r)
            /\ pdfs = Insert(<<>>, [user_id |-> 1, filename |-> file.filename,
                                    file_data |-> file.file_data])
            /\ conversations = Insert(<<>>, [user_id |-> 1, pdf_id |-> 1])
            /\ pc = "idle"
            /\ local = NoLocal

ChatTurnAny ==
    \E input \in UserInputs \cup PageInputs, session_size \in SessionSizes :
        ChatTurnWith(input, session_size)

NextChat == ChatTurnAny

SpecChat == InitChat /\ [][NextChat]_vars

(***************************************************************************)
(* What goes to the analysis engine: uploads with their initial analysis   *)
(* and chat turns, with the chat inputs that name up to four pages.        *)
(***************************************************************************)
InitEngine ==
    /\ page_cache = <<>>
    /\ session = LoggedIn(1)
    /\ last = NoCall
    /\ pdfs = <<>>
    /\ conversations = <<>>
    /\ pc = "idle"
    /\ local = NoLocal

UploadBeginEngine == \E file \in ChatFiles : UploadBeginWith(file)

NextEngine ==
    \/ UploadBeginEngine
    \/ CleanupPrevious
    \/ UploadProcess
    \/ ChatTurnAny

SpecEngine == InitEngine /\ [][NextEngine]_vars

(***************************************************************************)
(* The chat on a long conversation: the session after load_conversation of *)
(* a conversation with up to 50 stored messages, then chat turns.          *)
(***************************************************************************)
LongMargin == 3
MaxLongTurns == 3

\* the chat turns taken since the conversation was loaded: the user
\* messages of the transcript that carry the text of a chat input
TurnsTaken(s) ==
    Cardinality({i \in 1..Len(s["messages"]) :
                   /\ s["messages"][i].role = "user"
                   /\ \E input \in UserInputs : s["messages"][i].text = input.text})

InitLong ==
    /\ \E n \in (50 - LongMargin)..50 : session = LoadedSession(n)
    /\ page_cache = process_pdf_upload(<<>>, BytesA, 5).cache
    /\ last = NoCall
    /\ pdfs = Insert(<<>>, [user_id |-> 1, filename |-> "a.pdf", file_data |-> BytesA])
    /\ conversations = Insert(<<>>, [user_id |-> 1, pdf_id |-> 1])
    /\ pc = "idle"
    /\ local = NoLocal

\* app.py lines 438-468: a chat turn, as long as fewer than MaxLongTurns
\* turns were taken
LongChatTurnWith(input, session_size) ==
    LET s0 == ScriptStart(session)
        e == ChatEffect(session, page_cache, input, session_size)
    IN  /\ pc = "idle"
        /\ Authenticated(s0)
        /\ CurrentPdfShown(s0)
        /\ TurnsTaken(s0) < MaxLongTurns
        /\ page_cache' = e.cache
        /\ last' = IF e.fetch THEN e.call ELSE last
        /\ session' = e.session
        /\ UNCHANGED <<pdfs, conversations, pc, local>>

LongChatTurn ==
    \E input \in UserInputs, session_size \in SessionSizes :
        LongChatTurnWith(input, session_size)

SpecLong == InitLong /\ [][LongChatTurn]_vars

(***************************************************************************)
(* cleanup_session as a function of the session and its flag: sessions of  *)
(* a logged-in user that hold any subset of the keys below, with a         *)
(* processor whose cache is empty or holds a document's window.            *)
(***************************************************************************)
\* keys a session may hold or lack, with the values they have: the five
\* that cleanup_session names, one of PRESERVE_KEYS, one of neither list
OptionalKeys ==
    [pdf_images |-> "images", temp_data |-> "temp",
     messages |-> LoadedTranscript(2), current_pdf_id |-> 1,
     current_conversation_id |-> 1, username |-> "user1", pdf_data |-> BytesA]

\* the session of user 1 that holds the optional keys K
SessionWith(K) ==
    [k \in (DOMAIN LoggedIn(1) \ DOMAIN OptionalKeys) \cup K |->
        IF k \in K THEN OptionalKeys[k] ELSE LoggedIn(1)[k]]

InitCleanup ==
    /\ \E K \in SUBSET DOMAIN OptionalKeys : session = SessionWith(K)
    /\ page_cache \in {<<>>, process_pdf_upload(<<>>, BytesA, 5).cache}
    /\ last = NoCall
    /\ pdfs = Insert(<<>>, [user_id |-> 1, filename |-> "a.pdf", file_data |-> BytesA])
    /\ conversations = Insert(<<>>, [user_id |-> 1, pdf_id |-> 1])
    /\ pc = "idle"
    /\ local = NoLocal

CallCleanupSessionWith(preserve_data) ==
    /\ session' = cleanup_session(session, preserve_data)
    /\ last' = [NoCall EXCEPT !.op = "cleanup_session"]
    /\ UNCHANGED <<page_cache, pdfs, conversations, pc, local>>

CallCleanupSession ==
    \E preserve_data \in BOOLEAN : CallCleanupSessionWith(preserve_data)

NextCleanup ==
    \/ CallCleanupSession
    \/ MonitorCleanup

SpecCleanup == InitCleanup /\ [][NextCleanup]_vars

(***************************************************************************)
(* Properties of the page cache.                                           *)
(***************************************************************************)
\* the elements of a sequence
Range(seq) == {seq[i] : i \in 1..Len(seq)}

KeySeq(cache) == [i \in 1..Len(cache) |-> cache[i].key]

\* the last n elements of a sequence
LastN(seq, n) == IF Len(seq) <= n THEN seq ELSE SubSeq(seq, Len(seq) - n + 1, Len(seq))

IsBatchOp(op) == op \in {"convert_pages_batch", "get_pages_on_demand"}

Renderable(pdf_bytes, page_num) ==
    /\ ~Malformed(pdf_bytes)
    /\ page_num < PageCount(pdf_bytes)
    /\ ~Corrupt(pdf_bytes, ResolvePage(pdf_bytes, page_num))

\* C1: in every state reachable by calls of convert_page_to_image,
\* convert_pages_batch, process_pdf_upload, get_pages_on_demand and
\* clear_cache, page_cache holds at most MAX_PAGES_IN_MEMORY entries.
CapacityBound == Len(page_cache) <= MAX_PAGES_IN_MEMORY

\* the cache is full and the last call evicted to keep it so
CapacityBoundWitness ==
    /\ Len(page_cache) = MAX_PAGES_IN_MEMORY
    /\ last.evicted # <<>>

\* C2: a call that renders new keys into the cache leaves the cache holding
\* the most recent MAX_PAGES_IN_MEMORY keys of (keys held before, in order,
\* followed by the keys rendered, in order): the earliest-inserted keys are
\* the absent ones.  A single render into a full cache removes exactly the
\* oldest entry and appends the new one.
FIFOEviction ==
    [][LET before == IF last'.op \in {"process_pdf_upload", "clear_cache"}
                     THEN <<>> ELSE KeySeq(page_cache)
       IN  /\ KeySeq(page_cache') =
                LastN(before \o last'.rendered, MAX_PAGES_IN_MEMORY)
           /\ (/\ last'.op = "convert_page_to_image"
               /\ Len(page_cache) = MAX_PAGES_IN_MEMORY
               /\ last'.rendered # <<>>)
              => /\ Tail(page_cache) = SubSeq(page_cache', 1, MAX_PAGES_IN_MEMORY - 1)
                 /\ page_cache'[MAX_PAGES_IN_MEMORY].key = last'.rendered[1]
                 /\ Head(page_cache).key \notin CacheKeys(page_cache')
                 /\ last'.evicted = <<Head(page_cache).key>>
      ]_vars

\* one request rendered capacity + 2 distinct keys: the first two are
\* absent, the other 15 are the cache
FIFOEvictionWitness ==
    /\ last.op = "get_pages_on_demand"
    /\ Len(last.rendered) = MAX_PAGES_IN_MEMORY + 2
    /\ Cardinality({last.rendered[i] : i \in 1..Len(last.rendered)}) = Len(last.rendered)
    /\ last.rendered[1] \notin CacheKeys(page_cache)
    /\ last.rendered[2] \notin CacheKeys(page_cache)
    /\ KeySeq(page_cache) = SubSeq(last.rendered, 3, Len(last.rendered))

\* the request of a single-page call
SameRequest(c1, c2) ==
    /\ c1.op = "convert_page_to_image" /\ c2.op = "convert_page_to_image"
    /\ c1.pdf_bytes = c2.pdf_bytes
    /\ c1.page_numbers = c2.page_numbers
    /\ c1.quality = c2.quality

\* C3: convert_page_to_image on a key that is in the cache returns the
\* cached value, opens no document, renders nothing and leaves the cache as
\* it is; of two identical consecutive requests of which the first rendered
\* the page, the second renders nothing and returns the same image.
CacheHit ==
    [][/\ (/\ last'.op = "convert_page_to_image"
           /\ CacheKey(last'.pdf_bytes, last'.page_numbers[1], last'.quality)
                \in CacheKeys(page_cache))
          => /\ last'.ret = DictPut(EmptyDict, last'.page_numbers[1],
                   CacheGet(page_cache,
                     CacheKey(last'.pdf_bytes, last'.page_numbers[1], last'.quality)))
             /\ last'.opened = 0
             /\ last'.rendered = <<>>
             /\ page_cache' = page_cache
       /\ (SameRequest(last, last') /\ last.rendered # <<>>)
          => /\ Len(last.rendered) + Len(last'.rendered) = 1
             /\ last'.ret = last.ret
             /\ last'.opened = 0
      ]_vars

\* the last call was served from the cache
CacheHitWitness ==
    /\ last.op = "convert_page_to_image"
    /\ last.ret # EmptyDict
    /\ last.opened = 0
    /\ last.rendered = <<>>

\* C4: after process_pdf_upload(B) every cache entry is keyed by B's
\* identity and holds B's image; a request that returns an image returns
\* the image of the requested document; a request for another document's
\* page right after the upload is a miss that renders again.
DocumentIsolation ==
    [][/\ last'.op = "process_pdf_upload"
          => \A i \in 1..Len(page_cache') :
               /\ page_cache'[i].key[1] = get_pdf_hash(last'.pdf_bytes)
               /\ page_cache'[i].value.content = last'.pdf_bytes
       /\ last'.op = "convert_page_to_image"
          => \A p \in DOMAIN last'.ret : last'.ret[p].content = last'.pdf_bytes
       /\ (/\ last.op = "process_pdf_upload"
           /\ last'.op = "convert_page_to_image"
           /\ last'.pdf_bytes # last.pdf_bytes
           /\ last'.ret # EmptyDict)
          => /\ last'.opened = 1
             /\ last'.rendered =
                  <<CacheKey(last'.pdf_bytes, last'.page_numbers[1], last'.quality)>>
      ]_vars

\* document B's window is in the cache and document A's page was rendered
\* again after it
DocumentIsolationWitness ==
    /\ last.op = "convert_page_to_image"
    /\ last.pdf_bytes = BytesA
    /\ last.rendered # <<>>
    /\ Len(page_cache) = DefaultInitialPages + 1
    /\ \A i \in 1..DefaultInitialPages : page_cache[i].key[1] = get_pdf_hash(BytesB)
    /\ page_cache[DefaultInitialPages + 1].value.content = BytesA

\* the positions of a request whose page index is at or past the page count
OutOfRange(call) ==
    {i \in 1..Len(call.page_numbers) : call.page_numbers[i] >= PageCount(call.pdf_bytes)}

\* C8: convert_page_to_image with a page index >= the page count returns
\* None; a batch over N distinct pages of which exactly one is out of range
\* and the others render returns exactly the other N-1 pages, each with the
\* image a single request returns for it.
OutOfRangeInBatch ==
    /\ (/\ last.op = "convert_page_to_image"
        /\ ~Malformed(last.pdf_bytes)
        /\ OutOfRange(last) # {})
       => last.ret = EmptyDict /\ ~last.raised /\ last.rendered = <<>>
    /\ (/\ IsBatchOp(last.op)
        /\ Cardinality(OutOfRange(last)) = 1
        /\ \A i \in 1..Len(last.page_numbers) \ OutOfRange(last) :
             Renderable(last.pdf_bytes, last.page_numbers[i]))
       => /\ DOMAIN last.ret =
               {last.page_numbers[i] : i \in 1..Len(last.page_numbers) \ OutOfRange(last)}
          /\ \A p \in DOMAIN last.ret :
               /\ p < PageCount(last.pdf_bytes)
               /\ last.ret[p] = RenderPage(last.pdf_bytes, p, quality_settings(last.quality))
               /\ last.ret[p] =
                    convert_page_to_image(<<>>, last.pdf_bytes, p, last.quality).ret[p]
          /\ (Cardinality({last.page_numbers[i] : i \in 1..Len(last.page_numbers)})
                = Len(last.page_numbers))
             => Cardinality(DOMAIN last.ret) = Len(last.page_numbers) - 1
          /\ ~last.raised

\* a batch of three pages whose second page is out of range returned the
\* first and the third
OutOfRangeInBatchWitness ==
    /\ IsBatchOp(last.op)
    /\ Len(last.page_numbers) = 3
    /\ OutOfRange(last) = {2}
    /\ DOMAIN last.ret = {last.page_numbers[1], last.page_numbers[3]}

\* the positions of a request whose page raises while it is rendered
Failing(call) ==
    {i \in 1..Len(call.page_numbers) :
        \/ Malformed(call.pdf_bytes)
        \/ /\ call.page_numbers[i] < PageCount(call.pdf_bytes)
           /\ Corrupt(call.pdf_bytes, ResolvePage(call.pdf_bytes, call.page_numbers[i]))}

\* C9: a convert_page_to_image call in which rendering raises returns None
\* and leaves the page cache as it was; a batch with such a page returns no
\* image for it and still returns every page of the request that renders,
\* the ones after the failed page included.
SoftFailure ==
    [][/\ (last'.op = "convert_page_to_image" /\ Failing(last') # {})
          => /\ last'.ret = EmptyDict
             /\ ~last'.raised
             /\ page_cache' = page_cache
       /\ (IsBatchOp(last'.op) /\ Failing(last') # {})
          => /\ ~last'.raised
             /\ \A i \in 1..Len(last'.page_numbers) :
                  LET p == last'.page_numbers[i]
                  IN  /\ i \in Failing(last') => p \notin DOMAIN last'.ret
                      /\ Renderable(last'.pdf_bytes, p)
                         => /\ p \in DOMAIN last'.ret
                            /\ CacheKey(last'.pdf_bytes, p, last'.quality)
                                 \in CacheKeys(page_cache')
             /\ \A k \in CacheKeys(page_cache') :
                  k \in CacheKeys(page_cache) \/ k[1] = get_pdf_hash(last'.pdf_bytes)
      ]_vars

\* a batch whose second page failed to render rendered its third page
SoftFailureWitness ==
    /\ IsBatchOp(last.op)
    /\ Failing(last) = {2}
    /\ Len(last.page_numbers) = 3
    /\ last.page_numbers[3] \in DOMAIN last.ret
    /\ CacheKey(last.pdf_bytes, last.page_numbers[3], last.quality)
         = last.rendered[Len(last.rendered)]

\* C10: every call that opens the PDF document closes the handle before it
\* returns: after any call, as many close() calls were made as documents
\* were opened.
HandleRelease == last.closed = last.opened

\* the three tiers of quality_settings
Tiers == {"low", "medium", "high"}

\* C22: convert_page_to_image with a tier name outside low, medium, high
\* returns what the same request with the tier medium returns, before and
\* after the call; an image it returns is rendered at 150 DPI and saved
\* with JPEG quality 85.
TierFallback ==
    [][(last'.op = "convert_page_to_image" /\ last'.quality \notin Tiers)
       => LET b == last'.pdf_bytes
              p == last'.page_numbers[1]
          IN  /\ last'.ret = convert_page_to_image(page_cache, b, p, "medium").ret
              /\ last'.ret = convert_page_to_image(page_cache', b, p, "medium").ret
              /\ \A q \in DOMAIN last'.ret :
                   /\ last'.ret[q] = RenderPage(b, p, [dpi |-> 150, jpeg_quality |-> 85])
                   /\ last'.ret[q].jpeg_quality = 85
      ]_vars

\* page 0 of document B was rendered for the tier ultra while its medium
\* image was in the cache: the image returned is the medium image
TierFallbackWitness ==
    /\ last.op = "convert_page_to_image"
    /\ last.quality = "ultra"
    /\ last.rendered = <<CacheKey(BytesB, 0, "ultra")>>
    /\ CacheKey(BytesB, 0, "medium") \in CacheKeys(page_cache)
    /\ last.ret[0] = CacheGet(page_cache, CacheKey(BytesB, 0, "medium"))
    /\ last.ret[0].jpeg_quality = 85

\* what a request returns from an empty cache
FreshResult(pdf_bytes, page_num, quality) ==
    convert_page_to_image(<<>>, pdf_bytes, page_num, quality).ret

\* C23: whatever the cache holds and whatever was called before, a
\* convert_page_to_image call returns what the same request returns from an
\* empty cache, and every image that a call returns or the cache holds is
\* the rendering of its (bytes, page index, tier); a step never changes
\* the value of a key that stays in the cache.
SameKeySameBytes ==
    [][/\ last'.op = "convert_page_to_image"
          => last'.ret = FreshResult(last'.pdf_bytes, last'.page_numbers[1], last'.quality)
       /\ last'.op \in {"convert_page_to_image", "convert_pages_batch",
                        "get_pages_on_demand", "process_pdf_upload"}
          => \A p \in DOMAIN last'.ret :
               last'.ret[p] = RenderPage(last'.pdf_bytes, p, quality_settings(last'.quality))
       /\ \A i \in 1..Len(page_cache') :
            \E b \in UploadBytes :
               /\ page_cache'[i].key = CacheKey(b, page_cache'[i].key[2], page_cache'[i].key[3])
               /\ page_cache'[i].value =
                    RenderPage(b, page_cache'[i].key[2],
                               quality_settings(page_cache'[i].key[3]))
       /\ \A i, j \in 1..Len(page_cache') :
            page_cache'[i].key = page_cache'[j].key => i = j
       /\ \A k \in CacheKeys(page_cache) \cap CacheKeys(page_cache') :
            CacheGet(page_cache', k) = CacheGet(page_cache, k)
      ]_vars

\* page 0 of document A was served from a full cache that holds pages of
\* document B around it: the value is the rendering of A's page 0
SameKeySameBytesWitness ==
    /\ last.op = "convert_page_to_image"
    /\ last.pdf_bytes = BytesA
    /\ last.opened = 0
    /\ last.ret = FreshResult(BytesA, 0, "medium")
    /\ last.ret # EmptyDict
    /\ Len(page_cache) = MAX_PAGES_IN_MEMORY
    /\ Head(page_cache).value.content = BytesB
    /\ page_cache[Len(page_cache)].value.content = BytesB

\* C34: every entry of the page cache holds the image of a page that
\* renders, never the value None; a convert_page_to_image call that returns
\* None (page index out of range, or the rendering raises) leaves the cache
\* as it was: no entry is added and none is evicted.
FailuresNeverCached ==
    [][/\ \A i \in 1..Len(page_cache') :
            \E b \in UploadBytes :
               /\ page_cache'[i].key[1] = get_pdf_hash(b)
               /\ Renderable(b, page_cache'[i].key[2])
               /\ page_cache'[i].value =
                    RenderPage(b, page_cache'[i].key[2],
                               quality_settings(page_cache'[i].key[3]))
       /\ (last'.op = "convert_page_to_image" /\ DOMAIN last'.ret = {})
          => /\ page_cache' = page_cache
             /\ last'.rendered = <<>>
             /\ last'.evicted = <<>>
      ]_vars

\* a page whose rendering raises was requested while the cache was full: the
\* call returned None and the cache is still full
FailuresNeverCachedWitness ==
    /\ last.op = "convert_page_to_image"
    /\ DOMAIN last.ret = {}
    /\ Failing(last) # {}
    /\ ~Malformed(last.pdf_bytes)
    /\ Len(page_cache) = MAX_PAGES_IN_MEMORY
    /\ last.evicted = <<>>

\* C35: a convert_page_to_image call that is served from the cache leaves
\* the cache, the order of its entries included, as it was; the entries
\* that a call evicts are the oldest-inserted ones, in insertion order,
\* whether or not they were read since: reading an entry does not move it.
ReadsKeepOrder ==
    [][/\ (/\ last'.op = "convert_page_to_image"
           /\ CacheKey(last'.pdf_bytes, last'.page_numbers[1], last'.quality)
                \in CacheKeys(page_cache))
          => /\ page_cache' = page_cache
             /\ last'.evicted = <<>>
       /\ (last'.op = "convert_page_to_image" \/ IsBatchOp(last'.op))
          => /\ last'.evicted =
                  SubSeq(KeySeq(page_cache) \o last'.rendered, 1, Len(last'.evicted))
             /\ \A i \in 1..Len(last'.page_numbers) :
                  LET k == CacheKey(last'.pdf_bytes, last'.page_numbers[i], last'.quality)
                  IN  (/\ page_cache # <<>>
                       /\ k = Head(page_cache).key
                       /\ last'.evicted # <<>>)
                      => last'.evicted[1] = k
      ]_vars

\* a request read page 0 of document B, the oldest entry, from the cache and
\* then rendered pages into the full cache: page 0 was returned, and it is
\* the first entry evicted
ReadsKeepOrderWitness ==
    /\ last.op = "get_pages_on_demand"
    /\ last.pdf_bytes = BytesB
    /\ last.page_numbers[1] = 0
    /\ 0 \in DOMAIN last.ret
    /\ CacheKey(BytesB, 0, "medium") \notin Range(last.rendered)
    /\ last.evicted # <<>>
    /\ last.evicted[1] = CacheKey(BytesB, 0, "medium")
    /\ CacheKey(BytesB, 0, "medium") \notin CacheKeys(page_cache)

\* C36: the cache never holds two entries of one document and page index
\* whose tiers resolve to the same rendering settings; a request with a tier
\* name outside low, medium, high for a page whose medium entry is in the
\* cache is served from the cache: it opens no document and renders nothing.
OneEntryPerTier ==
    [][/\ \A i, j \in 1..Len(page_cache') :
            (/\ page_cache'[i].key[1] = page_cache'[j].key[1]
             /\ page_cache'[i].key[2] = page_cache'[j].key[2]
             /\ quality_settings(page_cache'[i].key[3])
                  = quality_settings(page_cache'[j].key[3]))
            => i = j
       /\ (/\ last'.op = "convert_page_to_image"
           /\ last'.quality \notin Tiers
           /\ CacheKey(last'.pdf_bytes, last'.page_numbers[1], "medium")
                \in CacheKeys(page_cache))
          => /\ last'.opened = 0
             /\ last'.rendered = <<>>
             /\ page_cache' = page_cache
      ]_vars

\* the pages of a request fetched one by one, each with its own
\* convert_page_to_image call, in request order
RECURSIVE OneByOne(_, _, _, _)
OneByOne(acc, pdf_bytes, page_numbers, quality) ==
    IF page_numbers = <<>>
    THEN acc
    ELSE LET page_num == Head(page_numbers)
             r == convert_page_to_image(acc.cache, pdf_bytes, page_num, quality)
         IN  OneByOne(Accumulate(acc, page_num, r, Truthy(r, page_num)),
                      pdf_bytes, Tail(page_numbers), quality)

\* C39: convert_pages_batch cuts the request into groups of at most
\* MAX_BATCH_SIZE pages that follow each other in request order, and its
\* result, the renderings it makes and the cache it leaves are those of
\* fetching the pages one by one: the result maps exactly the requested
\* pages that render to their images, also when the request is longer than
\* the cache and the first pages are evicted before the call returns.
ChunkingUnobservable ==
    [][IsBatchOp(last'.op)
       => LET b == last'.pdf_bytes
              pages == last'.page_numbers
              one == OneByOne(StartAcc(page_cache), b, pages, last'.quality)
          IN  /\ \A j \in 1..Len(pages) :
                   LET i == ((j - 1) \div MAX_BATCH_SIZE) * MAX_BATCH_SIZE
                   IN  /\ Len(Slice(pages, i)) <= MAX_BATCH_SIZE
                       /\ j - i \in 1..Len(Slice(pages, i))
                       /\ Slice(pages, i)[j - i] = pages[j]
              /\ last'.ret = one.ret
              /\ last'.rendered = one.rendered
              /\ page_cache' = one.cache
              /\ DOMAIN last'.ret = {p \in Range(pages) : Renderable(b, p)}
              /\ \A p \in DOMAIN last'.ret :
                   last'.ret[p] = RenderPage(b, p, quality_settings(last'.quality))
      ]_vars

\* a request of more pages than the cache holds returned all of them: the
\* first page is in the result and no longer in the cache
ChunkingUnobservableWitness ==
    /\ IsBatchOp(last.op)
    /\ Len(last.page_numbers) > MAX_PAGES_IN_MEMORY
    /\ DOMAIN last.ret = Range(last.page_numbers)
    /\ Cardinality(DOMAIN last.ret) = Len(last.page_numbers)
    /\ Len(page_cache) = MAX_PAGES_IN_MEMORY
    /\ CacheKey(last.pdf_bytes, last.page_numbers[1], last.quality)
         \notin CacheKeys(page_cache)

(***************************************************************************)
(* Properties of the session.                                              *)
(***************************************************************************)
\* the id of the active document, NoId when there is none
ActivePdf(s) == IF "current_pdf_id" \in DOMAIN s THEN s["current_pdf_id"] ELSE NoId

ActiveConversation(s) ==
    IF "current_conversation_id" \in DOMAIN s THEN s["current_conversation_id"] ELSE NoId

Transcript(s) == IF "messages" \in DOMAIN s THEN s["messages"] ELSE <<>>

\* C5: in every state of the session, under any interleaving of upload,
\* load of a stored PDF, load of a conversation, chat turn, New Analysis,
\* PDF deletion and monitor cleanup, all entries of the page cache carry the
\* same document identity, and their images are of that document.
SingleDocumentCache ==
    \A i, j \in 1..Len(page_cache) :
        /\ page_cache[i].key[1] = page_cache[j].key[1]
        /\ page_cache[i].value.content = page_cache[j].value.content

\* C6: the action New Analysis leaves the session with no active document
\* (current_pdf_id and current_conversation_id cleared, transcript empty)
\* and with an empty page cache.
NewAnalysisResets ==
    [][NewAnalysis =>
         /\ ActivePdf(session') = NoId
         /\ ActiveConversation(session') = NoId
         /\ Transcript(session') = <<>>
         /\ page_cache' = <<>>
      ]_vars

\* C7: a step that makes a document active that was not active before, and
\* every step that renders the pages of a document being loaded, starts in
\* a state in which no document is active and the page cache is empty.
SwitchThroughEmpty ==
    [][(\/ ActivePdf(session') \notin {NoId, ActivePdf(session)}
        \/ pc = "process")
       => /\ ActivePdf(session) = NoId
          /\ page_cache = <<>>
      ]_vars

\* the handler of an upload stands between its cleanup and its rendering:
\* no document is active, the cache is empty, and the conversation of the
\* document that was active, another document, is still the current one
SwitchThroughEmptyWitness ==
    /\ pc = "process"
    /\ local.kind = "upload"
    /\ ActivePdf(session) = NoId
    /\ page_cache = <<>>
    /\ ActiveConversation(session) \in DOMAIN conversations
    /\ conversations[ActiveConversation(session)].pdf_id \in DOMAIN pdfs
    /\ pdfs[conversations[ActiveConversation(session)].pdf_id].file_data # local.file_data

\* C24: the identity of an upload, and with it every cache key of its
\* pages, is get_pdf_hash of the uploaded bytes: the pdf_hash that
\* process_pdf_info reports is that digest, the keys of the rendered window
\* carry it, two uploads have the same identity and the same keys exactly
\* when their bytes are the same, whatever the file names and whatever was
\* uploaded or deleted before.
ContentIdentity ==
    [][(pc = "process" /\ last'.op = "process_pdf_upload" /\ ~last'.raised)
       => /\ last'.pdf_hash = get_pdf_hash(local.file_data)
          /\ \A i \in 1..Len(last'.rendered) :
               last'.rendered[i] = CacheKey(local.file_data, last'.rendered[i][2], "medium")
          /\ \A i \in 1..Len(page_cache') :
               page_cache'[i].key[1] = get_pdf_hash(local.file_data)
          /\ (last.op = "process_pdf_upload" /\ ~last.raised)
             => /\ (last.pdf_bytes = last'.pdf_bytes) <=> (last.pdf_hash = last'.pdf_hash)
                /\ last.pdf_bytes = last'.pdf_bytes => last'.rendered = last.rendered
                /\ last.pdf_bytes # last'.pdf_bytes
                   => \A i \in 1..Len(last.rendered), j \in 1..Len(last'.rendered) :
                        last.rendered[i] # last'.rendered[j]
      ]_vars

\* the same bytes were uploaded under two file names: the second upload
\* has the identity and the cache keys of these bytes
ContentIdentityWitness ==
    /\ DOMAIN pdfs = {1, 2}
    /\ pdfs[1].file_data = BytesA /\ pdfs[2].file_data = BytesA
    /\ pdfs[1].filename # pdfs[2].filename
    /\ last.op = "process_pdf_upload"
    /\ last.pdf_hash = get_pdf_hash(BytesA)
    /\ KeySeq(page_cache) = [i \in 1..NumPagesA |-> CacheKey(BytesA, i - 1, "medium")]
    /\ ActivePdf(session) = 2

\* the identity of the document that the main content area of a session
\* shows (lines 411-415), None when it shows no document
ActiveDocument(s) ==
    LET s0 == ScriptStart(s)
    IN  IF s0["current_pdf_id"] # NoId /\ PdfExists(pdfs, s0["current_pdf_id"], s0["user_id"])
        THEN get_pdf_hash(pdfs[s0["current_pdf_id"]].file_data)
        ELSE None

\* an upload, a chat turn with its on-demand fetch, a cleanup or a reset of
\* session sid
SessionStep(sid) ==
    \/ SessionUpload(sid)
    \/ SessionChat(sid)
    \/ SessionCleanup(sid)
    \/ SessionNewAnalysis(sid)

\* C25: an upload, a chat turn with its on-demand fetch, a cleanup or a
\* reset of one session leaves the page cache, the transcript, the
\* current_pdf_id and the identity of the active document of the other
\* session as they were.
CrossSessionIsolation ==
    [][\A sid \in Sessions :
         SessionStep(sid)
         => \A other \in Sessions \ {sid} :
               /\ page_cache'[other] = page_cache[other]
               /\ Transcript(session'[other]) = Transcript(session[other])
               /\ ActivePdf(session'[other]) = ActivePdf(session[other])
               /\ ActiveDocument(session[other])' = ActiveDocument(session[other])
      ]_vars

(***************************************************************************)
(* Properties of the memory management.                                    *)
(***************************************************************************)
\* one system message, and it leads
LeadingSystem(messages) ==
    /\ messages # <<>>
    /\ IsSystem(messages[1])
    /\ Len(NonSystem(messages)) = Len(messages) - 1

Critical(call) ==
    call.op = "auto_cleanup" /\ check_memory_usage(call.session_size) = "critical"

Warning(call) ==
    call.op = "auto_cleanup" /\ check_memory_usage(call.session_size) = "warning"

\* C11: optimize_messages(cap) on a transcript of one leading system message
\* and n > cap other messages leaves 1 + cap messages: the system message,
\* unchanged, then the last cap messages of the transcript in their order.
TrimResult ==
    [][(/\ last'.op = "optimize_messages"
        /\ LeadingSystem(Transcript(session))
        /\ Len(Transcript(session)) - 1 > last'.max_messages)
       => LET old == Transcript(session)
              new == Transcript(session')
              cap == last'.max_messages
          IN  /\ Len(new) = 1 + cap
              /\ new[1] = old[1]
              /\ \A i \in 1..cap : new[1 + i] = old[Len(old) - cap + i]
      ]_vars

\* the transcript of 1 + MaxStored messages was trimmed with the cap 50: it
\* holds 1 + 50 messages, from the stored message MaxStored - 49 to the last
TrimResultWitness ==
    /\ last.op = "optimize_messages"
    /\ last.max_messages = 50
    /\ last.previous.op = "none"
    /\ Len(Transcript(session)) = 1 + 50
    /\ Transcript(session)[1] = SystemMessage
    /\ Transcript(session)[2] = StoredMessage(MaxStored - 49)
    /\ Transcript(session)[1 + 50] = StoredMessage(MaxStored)

\* C12: after an auto_cleanup at critical level the transcript is the
\* leading system message followed by the last 10 non-system messages (all
\* of them when there were fewer).
CriticalTrim ==
    [][(Critical(last') /\ LeadingSystem(Transcript(session)))
       => Transcript(session') =
            <<Transcript(session)[1]>> \o LastN(NonSystem(Transcript(session)), 10)
      ]_vars

\* C15: an auto_cleanup at critical level leaves the page cache empty and
\* every key of PRESERVE_KEYS that the session holds with its value, and
\* returns True.
CriticalEffect ==
    [][Critical(last')
       => /\ page_cache' = <<>>
          /\ \A k \in PRESERVE_KEYS \cap DOMAIN session :
                k \in DOMAIN session' /\ session'[k] = session[k]
          /\ last'.cleaned
      ]_vars

\* a critical cleanup ran on the loaded session: the cache is empty, the
\* document keys are gone, the allow-listed keys are there
CriticalEffectWitness ==
    /\ Critical(last)
    /\ last.previous.op = "none"
    /\ last.cleaned
    /\ page_cache = <<>>
    /\ "current_pdf_id" \notin DOMAIN session
    /\ session["authenticated"] /\ session["user_id"] = 1
    /\ session["page"] = "main" /\ "pdf_processor" \in DOMAIN session

\* C16: an auto_cleanup at warning level leaves the transcript as the system
\* message and the last 15 non-system messages, changes neither the page
\* cache nor any other key of the session, and returns False.
WarningEffect ==
    [][Warning(last')
       => /\ LeadingSystem(Transcript(session))
             => Transcript(session') =
                  <<Transcript(session)[1]>>
                    \o LastN(NonSystem(Transcript(session)), 15)
          /\ page_cache' = page_cache
          /\ DOMAIN session' = DOMAIN session
          /\ \A k \in DOMAIN session \ {"messages"} : session'[k] = session[k]
          /\ ~last'.cleaned
      ]_vars

\* a warning cleanup cut a longer transcript to 1 + 15 messages and kept the
\* pages of the document in the cache
WarningEffectWitness ==
    /\ Warning(last)
    /\ last.previous.op = "none"
    /\ Len(Transcript(session)) = 1 + 15
    /\ \E n \in 16..50 :
         /\ Transcript(session)[2] = StoredMessage(n - 14)
         /\ Transcript(session)[1 + 15] = StoredMessage(n)
    /\ page_cache # <<>>
    /\ session["current_pdf_id"] = 1

\* C17: a critical auto_cleanup that follows a critical auto_cleanup changes
\* nothing: not the session, not the cache; it raises nothing and returns
\* True again.
CriticalIdempotent ==
    [][(Critical(last) /\ Critical(last'))
       => /\ session' = session
          /\ page_cache' = page_cache
          /\ ~last'.raised
          /\ last'.cleaned
      ]_vars

\* two critical cleanups ran one after the other
CriticalIdempotentWitness ==
    /\ Critical(last)
    /\ last.previous.op = "auto_cleanup"
    /\ check_memory_usage(last.previous.session_size) = "critical"
    /\ page_cache = <<>>
    /\ "messages" \notin DOMAIN session

\* C21: optimize_messages, for every transcript and every cap, keeps every
\* system message as it is and in order; a transcript that began with a
\* system message still begins with that message; the messages it drops are
\* non-system messages, and the oldest of them: the non-system messages
\* left are the most recent ones, in their order.
SystemPreserved ==
    [][last'.op = "optimize_messages"
       => LET old == Transcript(session)
              new == Transcript(session')
          IN  /\ SelectSeq(new, IsSystem) = SelectSeq(old, IsSystem)
              /\ (old # <<>> /\ IsSystem(old[1])) => (new # <<>> /\ new[1] = old[1])
              /\ Len(new) <= Len(old)
              /\ NonSystem(new) = LastN(NonSystem(old), Len(NonSystem(new)))
      ]_vars

\* a transcript of five messages, the first and the third system messages,
\* was trimmed with the cap 2: both system messages are there, the oldest
\* other message is gone
SystemPreservedWitness ==
    /\ last.op = "optimize_messages"
    /\ last.max_messages = 2
    /\ last.previous.op = "none"
    /\ Len(Transcript(session)) = 4
    /\ IsSystem(Transcript(session)[1]) /\ Transcript(session)[1].text = "1"
    /\ IsSystem(Transcript(session)[2]) /\ Transcript(session)[2].text = "3"
    /\ Transcript(session)[3].text = "4"
    /\ Transcript(session)[4].text = "5"

\* the classification by the two thresholds
Classified(session_size) ==
    IF session_size > CRITICAL_THRESHOLD_MB THEN "critical"
    ELSE IF session_size > WARNING_THRESHOLD_MB THEN "warning"
    ELSE "normal"

Severity(status) ==
    CASE status = "normal" -> 0
      [] status = "warning" -> 1
      [] status = "critical" -> 2

\* C26: check_memory_usage reports critical for a size above 180 MB,
\* warning for a size above 160 MB that is not above 180 MB, normal
\* otherwise; a larger size never has a less severe status; auto_cleanup
\* does the critical cleanup exactly at the sizes classified critical, the
\* warning trim exactly at those classified warning, and nothing at the
\* others.
MemoryClassification ==
    [][/\ last'.op = "check_memory_usage"
          => /\ last'.status = Classified(last'.session_size)
             /\ \A larger \in ThresholdSizes :
                  larger >= last'.session_size
                  => Severity(check_memory_usage(larger)) >= Severity(last'.status)
       /\ last'.op = "auto_cleanup"
          => LET status == Classified(last'.session_size)
             IN  /\ last'.cleaned <=> status = "critical"
                 /\ status = "critical"
                    => /\ session' = optimize_messages(cleanup_session(session, TRUE), 10)
                       /\ page_cache' = <<>>
                 /\ status = "warning"
                    => /\ session' = optimize_messages(session, 15)
                       /\ page_cache' = page_cache
                 /\ status = "normal"
                    => /\ session' = session
                       /\ page_cache' = page_cache
      ]_vars

\* at exactly the critical threshold the status is warning, and the
\* auto_cleanup at this size trimmed the transcript and kept the cache
MemoryClassificationWitness ==
    /\ last.op = "auto_cleanup"
    /\ last.session_size = CRITICAL_THRESHOLD_MB
    /\ last.previous.op = "check_memory_usage"
    /\ last.previous.session_size = CRITICAL_THRESHOLD_MB
    /\ ~last.cleaned
    /\ Len(Transcript(session)) = 1 + 15
    /\ Transcript(session)[1 + 15] = StoredMessage(MaxMonitorStored)
    /\ page_cache # <<>>

Normal(call) ==
    call.op = "auto_cleanup" /\ check_memory_usage(call.session_size) = "normal"

\* C27: an auto_cleanup at normal level changes nothing (not the
\* transcript, not the page cache, not any key of the session) and returns
\* False.
NormalNoAction ==
    [][Normal(last')
       => /\ session' = session
          /\ page_cache' = page_cache
          /\ ~last'.cleaned
          /\ ~last'.raised
      ]_vars

\* an auto_cleanup ran at exactly the warning threshold, which is normal
\* level, on a session with more messages than the warning trim keeps and
\* with cached pages: all of it is still there
NormalNoActionWitness ==
    /\ Normal(last)
    /\ last.session_size = WARNING_THRESHOLD_MB
    /\ last.previous.op = "none"
    /\ ~last.cleaned
    /\ Transcript(session) = LoadedTranscript(MaxMonitorStored)
    /\ page_cache = process_pdf_upload(<<>>, BytesA, 5).cache
    /\ ActivePdf(session) = 1 /\ ActiveConversation(session) = 1

(***************************************************************************)
(* Properties of the chat turn and of the upload.                          *)
(***************************************************************************)
\* C13: after a chat turn at a session size that is not critical, the
\* transcript starts with the system message and holds at most 50 other
\* messages.
ChatCap ==
    [][\A session_size \in SessionSizes :
         (check_memory_usage(session_size) # "critical" /\ ChatTurnAt(session_size))
         => /\ Transcript(session') # <<>>
            /\ Transcript(session')[1] = SystemMessage
            /\ Len(NonSystem(Transcript(session'))) <= 50
      ]_vars

\* the upload reaches its auto_cleanup: neither process_pdf_info nor the
\* analysis raises
UploadCompletes ==
    LET r == process_pdf_upload(page_cache, local.file_data, DefaultInitialPages)
    IN  ~r.raised /\ ~AnalysisRaises(r.ret)

\* C14: a chat turn whose auto_cleanup is critical leaves current_pdf_id and
\* current_conversation_id as they were, and an upload whose auto_cleanup is
\* critical leaves them at the ids of the rows it stored.
ExhaustionContinues ==
    [][\A session_size \in SessionSizes :
         check_memory_usage(session_size) = "critical"
         => /\ ChatTurnAt(session_size)
               => /\ ActivePdf(session') = ActivePdf(session)
                  /\ ActiveConversation(session') = ActiveConversation(session)
            /\ (UploadProcessAt(session_size) /\ UploadCompletes)
               => /\ ActivePdf(session') = NewId(pdfs)
                  /\ ActiveConversation(session') = NewId(conversations)
      ]_vars

\* the user message of the chat turn that led to session s: the assistant's
\* reply follows it
TurnMessage(s) == Transcript(s)[Len(Transcript(s)) - 1]

\* C28: process_pdf_upload called with bytes that cannot be opened as a PDF
\* returns to its caller: no exception leaves the call.
MalformedUploadReturns ==
    (last.op = "process_pdf_upload" /\ Malformed(last.pdf_bytes)) => ~last.raised

\* the pages of the initial window of an upload
WindowPages(call) == 0..(Min(call.max_initial_pages, call.total_pages) - 1)

\* C29: an upload in whose initial window some page failed to render and
\* some page rendered completes its initial analysis: no exception is
\* raised, and the images sent to the engine are the rendered pages of the
\* window.
PartialWindowAnalysed ==
    (/\ last.op = "process_pdf_upload"
     /\ last.analysis # "none"
     /\ DOMAIN last.ret # {}
     /\ DOMAIN last.ret # WindowPages(last))
    => /\ last.analysis = "completed"
       /\ Range(last.sent) = {last.ret[p] : p \in DOMAIN last.ret}

\* C30: the initial analysis of an upload sends at most 10 page images to
\* the engine, and the user message of a chat turn carries at most 3 page
\* images, whatever the page count of the document and the number of pages
\* the message names.
BoundedImages ==
    [][/\ last'.op = "process_pdf_upload" => Len(last'.sent) <= 10
       /\ \A input \in UserInputs \cup PageInputs, session_size \in SessionSizes :
            (/\ check_memory_usage(session_size) # "critical"
             /\ ChatTurnWith(input, session_size))
            => Len(TurnMessage(session').images) <= 3
      ]_vars

\* the document of NumPagesB pages was uploaded with an analysis of its
\* first 10 pages, and the chat turn that names four pages attached three
BoundedImagesWitness ==
    /\ ActivePdf(session) \in DOMAIN pdfs
    /\ pdfs[ActivePdf(session)].file_data = BytesB
    /\ Len(Transcript(session)) = 5
    /\ TurnMessage(session).text = "page 1, page 2, page 3, page 4"
    /\ Len(TurnMessage(session).images) = 3
    /\ last.op = "get_pages_on_demand"
    /\ Len(page_cache) = DefaultInitialPages

\* every page of the document of a call renders
AllRender(call) ==
    /\ ~Malformed(call.pdf_bytes)
    /\ \A i \in 0..(PageCount(call.pdf_bytes) - 1) : ~Corrupt(call.pdf_bytes, i)

\* C18: process_pdf_upload(bytes, m) on a document of n pages that all
\* render renders the pages 0 .. min(m, n) - 1, in this order and at medium
\* quality, returns exactly them, and reports total_pages = n.
InitialWindowResult ==
    (last.op = "process_pdf_upload" /\ AllRender(last))
    => LET n == PageCount(last.pdf_bytes)
           k == IF last.max_initial_pages <= n THEN last.max_initial_pages ELSE n
       IN  /\ ~last.raised
           /\ last.total_pages = n
           /\ DOMAIN last.ret = 0..(k - 1)
           /\ \A i \in 0..(k - 1) :
                last.ret[i] = RenderPage(last.pdf_bytes, i, quality_settings("medium"))
           /\ last.rendered = [i \in 1..k |-> CacheKey(last.pdf_bytes, i - 1, "medium")]

\* the upload of the document of NumPagesB pages with the default window
\* returned the pages 0..9
InitialWindowResultWitness ==
    /\ last.op = "process_pdf_upload"
    /\ last.pdf_bytes = BytesB
    /\ last.max_initial_pages = DefaultInitialPages
    /\ DOMAIN last.ret = 0..(DefaultInitialPages - 1)
    /\ last.total_pages = NumPagesB
    /\ Len(page_cache) = DefaultInitialPages

\* C19: in a chat turn whose message references 'page N', every N from 1 to
\* the page count of the active document whose page renders has the image
\* of page index N - 1, fetched at medium quality through the cache,
\* attached to the user message; an N past the page count has no image;
\* no other image is attached.
PageMapping ==
    [][\A input \in UserInputs \cup PageInputs, session_size \in SessionSizes :
         (/\ check_memory_usage(session_size) # "critical"
          /\ ChatTurnWith(input, session_size))
         => LET b == pdfs[ActivePdf(session)].file_data
                n == PageCount(b)
                msg == TurnMessage(session')
            IN  /\ msg.role = "user" /\ msg.text = input.text
                /\ \A i \in 1..Len(input.refs) :
                     LET N == input.refs[i]
                     IN  /\ (1 <= N /\ N <= n /\ ~Corrupt(b, N - 1))
                            => /\ RenderPage(b, N - 1, quality_settings("medium"))
                                    \in Range(msg.images)
                               /\ CacheKey(b, N - 1, "medium") \in CacheKeys(page_cache')
                         /\ N > n => \A img \in Range(msg.images) : img.page # N - 1
                /\ \A img \in Range(msg.images) :
                     /\ img.content = b
                     /\ \E i \in 1..Len(input.refs) : img.page = input.refs[i] - 1
      ]_vars

\* C19, with the cut that line 250 makes: in a chat turn whose message
\* references 'page N', every N among the first three references that lies
\* between 1 and the page count of the active document and whose page
\* renders has the image of page index N - 1, fetched at medium quality
\* through the cache, attached to the user message; an N past the page
\* count has no image; no image is attached for anything but the first
\* three references.
PageMappingFirstThree ==
    [][\A input \in UserInputs \cup PageInputs, session_size \in SessionSizes :
         (/\ check_memory_usage(session_size) # "critical"
          /\ ChatTurnWith(input, session_size))
         => LET b == pdfs[ActivePdf(session)].file_data
                n == PageCount(b)
                msg == TurnMessage(session')
            IN  /\ msg.role = "user" /\ msg.text = input.text
                /\ \A i \in 1..Min(3, Len(input.refs)) :
                     LET N == input.refs[i]
                     IN  /\ (1 <= N /\ N <= n /\ ~Corrupt(b, N - 1))
                            => /\ RenderPage(b, N - 1, quality_settings("medium"))
                                    \in Range(msg.images)
                               /\ CacheKey(b, N - 1, "medium") \in CacheKeys(page_cache')
                         /\ N > n => \A img \in Range(msg.images) : img.page # N - 1
                /\ \A img \in Range(msg.images) :
                     /\ img.content = b
                     /\ \E i \in 1..Min(3, Len(input.refs)) :
                          img = RenderPage(b, input.refs[i] - 1, quality_settings("medium"))
      ]_vars

\* the turn "page 11 and page 99" on the document of NumPagesB pages attached
\* the image of page index 10 and nothing for page 99
PageMappingFirstThreeWitness ==
    /\ Len(Transcript(session)) >= 2
    /\ TurnMessage(session).text = "page 11 and page 99"
    /\ TurnMessage(session).images =
         <<RenderPage(BytesB, 10, quality_settings("medium"))>>
    /\ last.op = "get_pages_on_demand"
    /\ last.page_numbers = <<10, 98>>
    /\ CacheKey(BytesB, 10, "medium") \in CacheKeys(page_cache)

\* C20: in a chat turn whose message names a page more than once, the
\* request handed to get_pages_on_demand names the page once, and the image
\* of the page is attached to the user message once.
DeduplicatedRequest ==
    [][\A input \in UserInputs \cup PageInputs, session_size \in SessionSizes :
         (/\ check_memory_usage(session_size) # "critical"
          /\ input.keyword /\ input.refs # <<>>
          /\ ChatTurnWith(input, session_size))
         => LET msg == TurnMessage(session')
            IN  /\ last'.op = "get_pages_on_demand"
                /\ \A i, j \in 1..Len(last'.page_numbers) :
                     last'.page_numbers[i] = last'.page_numbers[j] => i = j
                /\ \A i, j \in 1..Len(msg.images) :
                     msg.images[i] = msg.images[j] => i = j
      ]_vars

\* C33: the on-demand fetch of a chat turn returns an image only for the
\* requested indices i with 0 <= i < page count of the active document; any
\* other index derived from the message, the index -1 of 'page 0' included,
\* has no image in the result, none attached to the message, and no entry
\* in the cache.
ValidIndicesOnly ==
    [][\A input \in UserInputs \cup PageInputs, session_size \in SessionSizes :
         (/\ check_memory_usage(session_size) # "critical"
          /\ input.keyword /\ input.refs # <<>>
          /\ ChatTurnWith(input, session_size))
         => LET b == pdfs[ActivePdf(session)].file_data
                valid == 0..(PageCount(b) - 1)
                msg == TurnMessage(session')
            IN  /\ last'.op = "get_pages_on_demand"
                /\ DOMAIN last'.ret \subseteq valid
                /\ \A p \in Range(last'.page_numbers) \ valid :
                     CacheKey(b, p, "medium") \notin CacheKeys(page_cache')
                /\ \A img \in Range(msg.images) :
                     \E p \in Range(last'.page_numbers) \cap valid :
                        img = RenderPage(b, p, quality_settings("medium"))
      ]_vars

\* C37: after logout the session holds no document state of the user who
\* logged out: current_pdf_id and current_conversation_id are cleared, the
\* transcript is gone and the page cache is empty.
LogoutDropsDocumentState ==
    [][Logout
       => /\ ActivePdf(session') = NoId
          /\ ActiveConversation(session') = NoId
          /\ Transcript(session') = <<>>
          /\ page_cache' = <<>>
      ]_vars

\* the keys that cleanup_session names
Removable ==
    {"pdf_images", "messages", "current_pdf_id", "current_conversation_id", "temp_data"}

AssistantReply == [role |-> "assistant", text |-> "reply", images |-> <<>>]

\* C31: after a chat turn that ran to its end, the transcript of the session
\* ends with the user message of the turn followed by the assistant's
\* response, whether or not optimize_messages trimmed the transcript in
\* the turn.
AssistantReplyRetained ==
    [][\A input \in UserInputs, session_size \in SessionSizes :
         (/\ check_memory_usage(session_size) # "critical"
          /\ LongChatTurnWith(input, session_size))
         => LET t == Transcript(session')
            IN  /\ Len(t) >= 2
                /\ t[Len(t) - 1].role = "user"
                /\ t[Len(t) - 1].text = input.text
                /\ t[Len(t)] = AssistantReply
      ]_vars

\* C32: in every chat turn the list of messages handed to the analysis
\* engine is the transcript of the session as optimize_messages left it,
\* and holds at most 50 messages that are not system messages.
EngineSeesTrimmed ==
    [][\A input \in UserInputs, session_size \in SessionSizes :
         LongChatTurnWith(input, session_size)
         => LET e == ChatEffect(session, page_cache, input, session_size)
            IN  /\ e.engine = e.trimmed
                /\ Len(NonSystem(e.engine)) <= 50
      ]_vars

====
